---- MODULE Spec2Model ----
(***************************************************************************)
(* DockSafe: scan orchestration and result pipeline.                       *)
(*                                                                         *)
(* The module models ScannerService.scan_image (app/scanner/service.py)    *)
(* step by step over a relational store with a per-call session, the CVE   *)
(* exception filter, the denormalised severity counters and the three      *)
(* build-gating functions.                                                 *)
(*                                                                         *)
(* Nullable columns are encoded as sequences: <<>> is NULL/None and <<v>>  *)
(* is the value v.  A table without a key that the model reads is a bag    *)
(* of rows.                                                                *)
(***************************************************************************)
EXTENDS Integers, Sequences, FiniteSets, Bags, TLC

\* ---------------------------------------------------------------- bounds
MaxFindings == 2
MaxExceptions == 1
MaxTime == 2
MaxCount == 5
MaxConfigs == 2
MaxScans == 2
MaxDays == 2
\* Findings of one scan when two scans run together.
MaxTogether == 1

\* ------------------------------------------------------ program constants
ImageNameMaxLen == 255
ImageTagMaxLen == 100
DefaultThresholdLevel == 3
UnknownSeverityLevel == 0

\* ------------------------------------------------------------ value sets
None == <<>>
Some(v) == <<v>>

Calls == {"c1", "c2"}

\* Image names a caller passes to scan_image ("" fails the precondition).
ImageNames == {"nginx", ""}
\* Image names a backend is called with on its own: those of ImageNames and,
\* for the Clair backend, names with and without its keywords.
BackendImageNames(scanner) ==
  IF scanner = "clair"
  THEN ImageNames \cup {"ubuntu", "node", "redis", "Nginx-Node"}
  ELSE ImageNames
\* Tags a scan is requested with: the default one and an empty one.
ImageTags == {"latest", ""}
\* image_name scopes an operator gives to an exception (NULL = global).
ExceptionScopes == {None, Some("nginx"), Some("redis")}
\* CVE ids of findings; they differ in case only.
CVEIds == {"CVE-1", "cve-1"}
\* CVE ids operators approve exceptions for.
ExceptionCVEIds == {"CVE-1"}
\* expires_at values of an exception (NULL = permanent).
ExpiryTimes == {None, Some(1)}

\* Groups that own scans and notification configurations.
GroupIds == {1, 2}
\* The group_id a caller of scan_image passes (None: no group context).
ScanGroups == {None, Some(1)}
\* type and service of a notification configuration.
ChannelKinds ==
  {[type |-> "chat", service |-> "Slack"],
   [type |-> "chat", service |-> "Teams"],
   [type |-> "email", service |-> "Gmail"]}
\* notification_configurations rows (models.py NotificationConfiguration).
ConfigRows ==
  {[group_id |-> g, type |-> k.type, service |-> k.service, is_active |-> a] :
     g \in GroupIds, k \in ChannelKinds, a \in BOOLEAN}
\* What happens to one message: the channel service or the message could not
\* be built (an exception, nothing is handed to the transport), the transport
\* failed (webhook unreachable, SMTP error), or the message was delivered.
DeliveryOutcomes == {"raised", "failed", "delivered"}

VULNERABILITY_SEVERITIES == {"CRITICAL", "HIGH", "MEDIUM", "LOW"}
\* Severity strings as they occur in scanner output.
RawSeverities == {"CRITICAL", "HIGH", "high", "MEDIUM", "LOW", "UNKNOWN"}
\* Threshold strings a caller passes to should_fail_build.
Thresholds == {"CRITICAL", "HIGH", "MEDIUM", "LOW", "high", "UNKNOWN"}

TerminalStatuses == {"SUCCESS", "FAILED", "ERROR", "TIMEOUT"}

\* str.upper() on the strings of the model.
Upper(s) ==
  CASE s = "high" -> "HIGH"
    [] s = "cve-1" -> "CVE-1"
    [] OTHER -> s

\* str.lower() on the strings of the model.
Lower(s) ==
  CASE s = "SUCCESS" -> "success"
    [] s = "FAILED" -> "failed"
    [] s = "Nginx-Node" -> "nginx-node"
    [] OTHER -> s

\* ------------------------------------------------------------- variables
VARIABLES
  pc,            \* position of each scan_image call
  scan_record,   \* the VulnerabilityScan object of each call (session state)
  scan_result,   \* the ScanResult the backend returned to each call
  tx_vulns,      \* Vulnerability rows of each call's open transaction
  excepted_cves, \* the excepted CVE ids _apply_exceptions computed
  exc,           \* the exception caught by scan_image's handler
  raised,        \* what the call raised to its caller (None if nothing)
  store_scans,   \* committed vulnerability_scans rows, indexed by id
  store_vulns,   \* committed vulnerabilities rows (bag)
  exceptions,    \* committed scan_exceptions rows
  now,           \* datetime.utcnow()
  filter_runs,   \* how many times _apply_exceptions ran for each call's scan
  group_id,      \* the group_id argument of each call (the scan's owning group)
  configs,       \* committed notification_configurations rows
  sent,          \* messages handed to a channel's transport
  env_slack,     \* SLACK_WEBHOOK_URL holds a Slack webhook URL
  manager,       \* the NotificationManager singleton (None until constructed)
  dispatch_scan, \* the scan whose data is handed to the manager
  dispatch,      \* the last dispatch call of the manager and what it returned
  gate_counts,   \* counts handed to should_fail_build
  gate_threshold,\* threshold handed to should_fail_build
  gate_result,   \* decisions of the build-gating implementations
  report,        \* the last reporting query and what it returned
  backend_call,  \* a call of a backend's scan_image and what came of it
  probe          \* the last is_available / get_scanner_version call of a backend

notify_vars == <<group_id, configs, sent>>
scan_vars == <<pc, scan_record, scan_result, tx_vulns, excepted_cves, exc,
               raised, store_scans, store_vulns, exceptions, now, filter_runs>>
pipeline_vars == <<pc, scan_record, scan_result, tx_vulns, excepted_cves, exc,
                   raised, store_scans, store_vulns, exceptions, now,
                   filter_runs, group_id, configs, sent>>
manager_vars == <<env_slack, manager, dispatch_scan, dispatch>>
gate_vars == <<gate_counts, gate_threshold, gate_result>>
\* The variables of the functions that are applied outside scan_image.
report_vars == <<report, backend_call, probe>>
side_vars == <<manager_vars, gate_vars, report_vars>>
vars == <<pc, scan_record, scan_result, tx_vulns, excepted_cves, exc,
          raised, store_scans, store_vulns, exceptions, now,
          filter_runs, group_id, configs, sent,
          env_slack, manager, dispatch_scan, dispatch,
          gate_counts, gate_threshold, gate_result,
          report, backend_call, probe>>

\* ------------------------------------------------------------- helpers
RECURSIVE SumOver(_, _)
SumOver(f, S) ==
  IF S = {} THEN 0
  ELSE LET x == CHOOSE y \in S : TRUE IN f[x] + SumOver(f, S \ {x})

RECURSIVE SeqToBag(_)
SeqToBag(s) ==
  IF s = <<>> THEN EmptyBag ELSE SetToBag({Head(s)}) (+) SeqToBag(Tail(s))

\* Rows of bag B that satisfy P.
SelectBag(B, P(_)) == [r \in {x \in DOMAIN B : P(x)} |-> B[r]]

BoundedSeq(S, n) == UNION {[1..k -> S] : k \in 0..n}

\* ------------------------------------------------------------ severity
\* VulnerabilityScanner.parse_severity
parse_severity_passthrough(severity) == severity
parse_severity(severity) ==
  LET u == Upper(severity) IN
  IF u \in {"CRITICAL", "HIGH", "MEDIUM", "LOW"} THEN u
  ELSE "LOW"

\* VulnerabilityScanner.validate_image_name
validate_image_name(image_name) ==
  /\ image_name # ""
  /\ Len(image_name) > 0 /\ Len(image_name) <= ImageNameMaxLen

\* VulnerabilityScanner.validate_image_tag
validate_image_tag(image_tag) ==
  /\ image_tag # ""
  /\ Len(image_tag) > 0 /\ Len(image_tag) <= ImageTagMaxLen

\* ------------------------------------------------------------ exceptions
\* ScanException.is_expired
is_expired(ex, t) ==
  IF ex.expires_at = None THEN FALSE ELSE t > ex.expires_at[1]

\* ScanException.is_valid
is_valid_ignoring_expiry(ex, t) == ex.is_active
is_valid(ex, t) == ex.is_active /\ ~is_expired(ex, t)

\* The ScanException query of _apply_exceptions (service.py 113-119).
active_exceptions_any_image(image_name) == {ex \in exceptions : ex.is_active}
active_exceptions(image_name) ==
  {ex \in exceptions :
     /\ (ex.image_name = Some(image_name) \/ ex.image_name = None)
     /\ ex.is_active}

\* excepted_cves of _apply_exceptions (service.py 122).
ExceptedCves(image_name, t) ==
  {ex.cve_id : ex \in {e \in active_exceptions(image_name) : is_valid(e, t)}}

\* Vulnerability.cve_id.in_(excepted_cves): string equality of the store.
cve_in_ignoring_case(cve_id, cves) == \E x \in cves : Upper(x) = Upper(cve_id)
cve_in(cve_id, cves) == cve_id \in cves

\* The rows _apply_exceptions leaves (service.py 125-132).
RemoveExcepted_one_row_each(rows, scan_id, cves) ==
  rows (-) SetToBag({r \in DOMAIN rows :
                       r.scan_id = scan_id /\ cve_in(r.cve_id, cves)})
RemoveExcepted(rows, scan_id, cves) ==
  IF cves = {} THEN rows
  ELSE SelectBag(rows, LAMBDA r : ~(r.scan_id = scan_id /\ cve_in(r.cve_id, cves)))

\* ------------------------------------------------------------ counting
\* The GROUP BY query of _update_vulnerability_counts (service.py 139-144):
\* stored severity -> number of rows of the scan.
SeverityGroups(rows, scan_id) ==
  LET mine == SelectBag(rows, LAMBDA r : r.scan_id = scan_id)
      sevs == {r.severity : r \in DOMAIN mine}
  IN [s \in sevs |-> SumOver(mine, {r \in DOMAIN mine : r.severity = s})]

\* The counter a severity name ends with after the loop (service.py 154-162);
\* when several groups upper-case to the same name the last one assigned wins.
GroupCount(groups, name) ==
  LET hits == {s \in DOMAIN groups : Upper(s) = name}
  IN IF hits = {} THEN 0 ELSE groups[CHOOSE s \in hits : TRUE]

\* ScannerService._update_vulnerability_counts
update_vulnerability_counts_no_total(rec, rows) ==
  LET groups == SeverityGroups(rows, rec.id) IN
  [rec EXCEPT !.critical_count = GroupCount(groups, "CRITICAL"),
              !.high_count = GroupCount(groups, "HIGH"),
              !.medium_count = GroupCount(groups, "MEDIUM"),
              !.low_count = GroupCount(groups, "LOW")]
update_vulnerability_counts(rec, rows) ==
  LET groups == SeverityGroups(rows, rec.id) IN
  [rec EXCEPT !.critical_count = GroupCount(groups, "CRITICAL"),
              !.high_count = GroupCount(groups, "HIGH"),
              !.medium_count = GroupCount(groups, "MEDIUM"),
              !.low_count = GroupCount(groups, "LOW"),
              !.total_vulnerabilities = SumOver(groups, DOMAIN groups)]


\* ------------------------------------------------------------ build gating
\* VulnerabilityScanner.should_fail_build (engine.py)
VulnerabilityScanner_should_fail_build_first_only(counts, threshold) ==
  LET level == IF Upper(threshold) \in VULNERABILITY_SEVERITIES
               THEN CASE Upper(threshold) = "CRITICAL" -> 4
                      [] Upper(threshold) = "HIGH" -> 3
                      [] Upper(threshold) = "MEDIUM" -> 2
                      [] OTHER -> 1
               ELSE DefaultThresholdLevel
  IN IF level >= 4 THEN counts.critical_count > 0
     ELSE IF level >= 3 THEN counts.high_count > 0
     ELSE IF level >= 2 THEN counts.medium_count > 0
     ELSE level >= 1 /\ counts.low_count > 0
SEVERITY_LEVELS(name) ==
  CASE name = "CRITICAL" -> 4
    [] name = "HIGH" -> 3
    [] name = "MEDIUM" -> 2
    [] name = "LOW" -> 1
VulnerabilityScanner_should_fail_build(counts, threshold) ==
  LET threshold_level == IF Upper(threshold) \in VULNERABILITY_SEVERITIES
                         THEN SEVERITY_LEVELS(Upper(threshold))
                         ELSE DefaultThresholdLevel
  IN IF threshold_level >= 4 /\ counts.critical_count > 0 THEN TRUE
     ELSE IF threshold_level >= 3 /\ counts.high_count > 0 THEN TRUE
     ELSE IF threshold_level >= 2 /\ counts.medium_count > 0 THEN TRUE
     ELSE IF threshold_level >= 1 /\ counts.low_count > 0 THEN TRUE
     ELSE FALSE

\* ScannerService.should_fail_build (scanner/service.py)
ScannerService_should_fail_build(counts, threshold) ==
  LET threshold_level == IF Upper(threshold) \in VULNERABILITY_SEVERITIES
                         THEN SEVERITY_LEVELS(Upper(threshold))
                         ELSE DefaultThresholdLevel
  IN IF threshold_level >= 4 /\ counts.critical_count > 0 THEN TRUE
     ELSE IF threshold_level >= 3 /\ counts.high_count > 0 THEN TRUE
     ELSE IF threshold_level >= 2 /\ counts.medium_count > 0 THEN TRUE
     ELSE IF threshold_level >= 1 /\ counts.low_count > 0 THEN TRUE
     ELSE FALSE

\* SeverityUtils.get_severity_level
get_severity_level(severity) ==
  IF Upper(severity) \in VULNERABILITY_SEVERITIES
  THEN SEVERITY_LEVELS(Upper(severity))
  ELSE UnknownSeverityLevel

\* SeverityUtils.should_fail_build
SeverityUtils_should_fail_build_exact_level(counts, threshold) ==
  LET threshold_level == get_severity_level(threshold)
  IN \/ threshold_level = 4 /\ counts.critical_count > 0
                            /\ counts.high_count = 0
     \/ threshold_level = 3 /\ counts.high_count > 0 /\ counts.medium_count = 0
     \/ threshold_level = 2 /\ counts.medium_count > 0 /\ counts.low_count = 0
     \/ threshold_level = 1 /\ counts.low_count > 0
SeverityUtils_should_fail_build(counts, threshold) ==
  LET threshold_level == get_severity_level(threshold)
  IN IF threshold_level >= 4 /\ counts.critical_count > 0 THEN TRUE
     ELSE IF threshold_level >= 3 /\ counts.high_count > 0 THEN TRUE
     ELSE IF threshold_level >= 2 /\ counts.medium_count > 0 THEN TRUE
     ELSE IF threshold_level >= 1 /\ counts.low_count > 0 THEN TRUE
     ELSE FALSE

\* DatabaseConstants.DEFAULT_VULNERABILITY_THRESHOLD
DEFAULT_VULNERABILITY_THRESHOLD == "HIGH"

\* ScanService.should_fail_build (services/scan_service.py 132-139): the
\* counts of the record are passed on, the threshold is not.
ScanService_should_fail_build(counts, threshold) ==
  SeverityUtils_should_fail_build(counts, DEFAULT_VULNERABILITY_THRESHOLD)

\* The decisions of the gating implementations for one call.
GateDecisions(counts, threshold) ==
  [engine |-> VulnerabilityScanner_should_fail_build(counts, threshold),
   service |-> ScannerService_should_fail_build(counts, threshold),
   utils |-> SeverityUtils_should_fail_build(counts, threshold),
   scan_service |-> ScanService_should_fail_build(counts, threshold)]

CountVectors ==
  [critical_count : 0..MaxCount, high_count : 0..MaxCount,
   medium_count : 0..MaxCount, low_count : 0..MaxCount]
CountFields == {"critical_count", "high_count", "medium_count", "low_count"}

\* ------------------------------------------------------------ the backend
\* TrivyScanner._parse_result_item: one VulnerabilityResult per raw entry.
\* Nothing reads the order of the list, so the model keeps it as a bag.
parse_result_item(raw) ==
  SeqToBag([i \in 1..Len(raw) |->
              [cve_id |-> raw[i].VulnerabilityID,
               severity |-> parse_severity(raw[i].Severity)]])

RawFindings == [VulnerabilityID : CVEIds, Severity : RawSeverities]

\* TrivyScanner.scan_image after the precondition: the ScanResult for the
\* outcome of the subprocess (exit 0, non-zero exit, timeout, other error).
backend_scan_image(outcome, raw) ==
  CASE outcome = "exit0" ->
         [scan_status |-> "SUCCESS", vulnerabilities |-> parse_result_item(raw),
          scan_output |-> "stdout"]
    [] outcome = "nonzero" ->
         [scan_status |-> "FAILED", vulnerabilities |-> EmptyBag,
          scan_output |-> "stderr"]
    [] outcome = "timeout" ->
         [scan_status |-> "TIMEOUT", vulnerabilities |-> EmptyBag,
          scan_output |-> "Scan timed out"]
    [] OTHER ->
         [scan_status |-> "ERROR", vulnerabilities |-> EmptyBag,
          scan_output |-> "os error"]
SubprocessOutcomes == {"exit0", "nonzero", "timeout", "oserror"}

NoResult == [scan_status |-> "", vulnerabilities |-> EmptyBag, scan_output |-> ""]

\* int((datetime.now() - start_time).total_seconds()): the whole seconds
\* between two readings of the clock.
scan_duration_reversed(start_time, end_time) == start_time - end_time
scan_duration(start_time, end_time) == end_time - start_time

\* What can come of the trivy subprocess and of parsing its output: besides
\* SubprocessOutcomes, a binary that is missing (FileNotFoundError, caught at
\* trivy_scanner.py 136), output that is no JSON (JSONDecodeError, caught in
\* _parse_trivy_output at 167: no findings) and JSON of another shape (an
\* error of the parser, caught at 136).
TrivyOutcomes == SubprocessOutcomes \cup {"missing_binary", "not_json", "malformed"}

\* TrivyScanner.scan_image after the precondition (trivy_scanner.py 63-148),
\* with the duration it records on every path.
TrivyScanner_scan_image(outcome, raw, start_time, end_time) ==
  LET result == IF outcome = "not_json"
                THEN backend_scan_image("exit0", <<>>)
                ELSE backend_scan_image(outcome, raw)
  IN [scan_status |-> result.scan_status,
      vulnerabilities |-> result.vulnerabilities,
      scan_output |-> result.scan_output,
      scan_duration_seconds |-> scan_duration(start_time, end_time),
      metadata |-> IF result.scan_status \in {"SUCCESS", "FAILED"}
                   THEN {"trivy_command", "return_code", "severity_threshold"}
                   ELSE {"error"}]

\* `keyword in s` for the keywords of _generate_sample_vulnerabilities and the
\* (lower-case) image names of the model.
Contains(s, keyword) ==
  keyword \in CASE s = "nginx" -> {"nginx"}
                [] s = "ubuntu" -> {"ubuntu"}
                [] s = "node" -> {"node"}
                [] s = "nginx-node" -> {"nginx", "node"}
                [] OTHER -> {}

\* ClairScanner._generate_sample_vulnerabilities (clair_scanner.py 155-304):
\* the if/elif chain over the keywords, and the generic findings of the else
\* branch.
generate_sample_vulnerabilities_of_last_keyword(image_name) ==
  LET name == Lower(image_name) IN
  IF Contains(name, "node")
  THEN SetToBag({[cve_id |-> "CVE-2021-22918", severity |-> "HIGH"],
                 [cve_id |-> "CVE-2021-22940", severity |-> "MEDIUM"]})
  ELSE SetToBag({[cve_id |-> "CVE-2021-12345", severity |-> "MEDIUM"],
                 [cve_id |-> "CVE-2021-67890", severity |-> "LOW"]})
generate_sample_vulnerabilities(image_name) ==
  LET name == Lower(image_name) IN
  IF Contains(name, "nginx")
  THEN SetToBag({[cve_id |-> "CVE-2021-23017", severity |-> "HIGH"],
                 [cve_id |-> "CVE-2020-12400", severity |-> "MEDIUM"]})
  ELSE IF Contains(name, "ubuntu")
  THEN SetToBag({[cve_id |-> "CVE-2021-4034", severity |-> "CRITICAL"],
                 [cve_id |-> "CVE-2021-44228", severity |-> "CRITICAL"]})
  ELSE IF Contains(name, "node")
  THEN SetToBag({[cve_id |-> "CVE-2021-22918", severity |-> "HIGH"],
                 [cve_id |-> "CVE-2021-22940", severity |-> "MEDIUM"]})
  ELSE SetToBag({[cve_id |-> "CVE-2021-12345", severity |-> "MEDIUM"],
                 [cve_id |-> "CVE-2021-67890", severity |-> "LOW"]})

\* What the health request of is_available can give: status 200, another
\* status, or no answer (demo mode: available).
ClairOutcomes == {"healthy", "unhealthy", "unreachable"}

\* ClairScanner.scan_image after the precondition (clair_scanner.py 55-107);
\* the duration of the simulated scan is read after is_available returned.
ClairScanner_scan_image(outcome, image_name, start_time, end_time) ==
  IF outcome = "unhealthy"
  THEN [scan_status |-> "ERROR", vulnerabilities |-> EmptyBag,
        scan_output |-> "Clair scanner is not available",
        scan_duration_seconds |-> scan_duration(start_time, end_time),
        metadata |-> {"error"}]
  ELSE [scan_status |-> "SUCCESS",
        vulnerabilities |-> generate_sample_vulnerabilities(image_name),
        scan_output |-> "Clair scan completed",
        scan_duration_seconds |-> scan_duration(start_time, end_time),
        metadata |-> {"clair_url", "note", "vulnerability_count"}]

\* What a method returned (result) or raised.
Returns(value) == [raised |-> None, result |-> Some(value)]
Raises(exception) == [raised |-> Some(exception), result |-> None]

\* What can come of `trivy --version` (trivy_scanner.py 24-29, 38-43): exit 0
\* with or without a "Version: x" first line, another exit code, the timeout,
\* a missing binary (FileNotFoundError) and a binary that may not be executed
\* (PermissionError, an OSError that is no SubprocessError).
TrivyProbeOutcomes ==
  {"exit0", "exit0_no_version", "nonzero", "timeout", "missing_binary",
   "permission_denied"}

\* TrivyScanner.is_available (trivy_scanner.py 21-33): the except clause
\* names TimeoutExpired, FileNotFoundError and SubprocessError only.
TrivyScanner_is_available(outcome) ==
  CASE outcome \in {"exit0", "exit0_no_version"} -> Returns(TRUE)
    [] outcome = "nonzero" -> Returns(FALSE)
    [] outcome \in {"timeout", "missing_binary"} -> Returns(FALSE)
    [] OTHER -> Raises("PermissionError")

\* TrivyScanner.get_scanner_version (trivy_scanner.py 35-51).
TrivyScanner_get_scanner_version(outcome) ==
  CASE outcome = "exit0" -> Returns("0.48.3")
    [] outcome = "exit0_no_version" -> Returns("unknown")
    [] outcome = "nonzero" -> Returns("unknown")
    [] OTHER -> Returns("unknown")

\* What can come of a request to the Clair server (clair_scanner.py 25, 35):
\* status 200 (for /version: a body with a Version, a body without one, a
\* body that is no JSON), another status, a timeout, a network error.
ClairProbeOutcomes ==
  {"status200", "status200_no_version", "status200_not_json", "status_other",
   "timeout", "network_error"}

\* ClairScanner.is_available (clair_scanner.py 20-30).
ClairScanner_is_available(outcome) ==
  CASE outcome \in {"status200", "status200_no_version", "status200_not_json"} ->
         Returns(TRUE)
    [] outcome = "status_other" -> Returns(FALSE)
    [] OTHER -> Returns(TRUE)

\* ClairScanner.get_scanner_version (clair_scanner.py 32-43).
ClairScanner_get_scanner_version(outcome) ==
  CASE outcome = "status200" -> Returns("4.7.2")
    [] outcome = "status200_no_version" -> Returns("unknown")
    [] outcome = "status_other" -> Returns("unknown")
    [] OTHER -> Returns("demo-1.0.0")

\* ------------------------------------------------------------ the record
\* VulnerabilityScan(...) as scan_image constructs it (service.py 33-40);
\* id 0 stands for "no primary key yet", the counters hold the column
\* defaults the INSERT applies (models.py 170-174).
NewScanRecord(image_name, image_tag) ==
  [id |-> 0, image_name |-> image_name, image_tag |-> image_tag,
   scan_status |-> "IN_PROGRESS",
   scan_output |-> None,
   total_vulnerabilities |-> 0, critical_count |-> 0, high_count |-> 0,
   medium_count |-> 0, low_count |-> 0]

\* ScannerService._update_scan_record
update_scan_record_error_as_failed(rec, result) ==
  [rec EXCEPT !.scan_status = IF result.scan_status \in {"ERROR", "TIMEOUT"}
                              THEN "FAILED" ELSE result.scan_status,
              !.scan_output = Some(result.scan_output)]
update_scan_record(rec, result) ==
  [rec EXCEPT !.scan_status = result.scan_status,
              !.scan_output = Some(result.scan_output)]

\* ScannerService._store_vulnerabilities: the rows added to the session.
store_vulnerabilities_of_first_scan(rec, result) ==
  [r \in {[scan_id |-> 1, cve_id |-> v.cve_id, severity |-> v.severity] :
            v \in DOMAIN result.vulnerabilities}
     |-> result.vulnerabilities[[cve_id |-> r.cve_id, severity |-> r.severity]]]
store_vulnerabilities(rec, result) ==
  [r \in {[scan_id |-> rec.id, cve_id |-> v.cve_id, severity |-> v.severity] :
            v \in DOMAIN result.vulnerabilities}
     |-> result.vulnerabilities[[cve_id |-> r.cve_id, severity |-> r.severity]]]

\* The session's object after the commit: a new object has received the next
\* primary key of the table.
with_primary_key(rec, scans) ==
  IF rec.id = 0 THEN [rec EXCEPT !.id = Len(scans) + 1] ELSE rec

\* db.session.commit(): the scans table after the session's record is written
\* (INSERT with the next id for a new object, UPDATE otherwise).
commit_nothing(scans, rec) == scans
commit_scan(scans, rec) ==
  IF rec.id = 0
  THEN Append(scans, with_primary_key(rec, scans))
  ELSE [scans EXCEPT ![rec.id] = rec]

\* service.py 76-77: the except clause marks the record.
mark_failed_as_error(rec, message) ==
  [rec EXCEPT !.scan_status = "ERROR", !.scan_output = message]
mark_failed(rec, message) ==
  [rec EXCEPT !.scan_status = "FAILED", !.scan_output = message]

\* The rows a call's queries see: committed rows and those of its transaction.
VisibleVulns(c) == store_vulns (+) tx_vulns[c]


\* ------------------------------------------------------------ notifications
\* NotificationMapper.get_configurations_by_group
get_configurations_by_group(group) ==
  {cfg \in configs : cfg.group_id = group /\ cfg.is_active}

\* scan_data of _send_scan_notifications (service.py 286-299).
ScanData(rec) ==
  [scan_id |-> rec.id, image_name |-> rec.image_name,
   scan_status |-> rec.scan_status,
   total_vulnerabilities |-> rec.total_vulnerabilities,
   critical_count |-> rec.critical_count, high_count |-> rec.high_count,
   medium_count |-> rec.medium_count, low_count |-> rec.low_count]

\* The text send_scan_completion_notification builds (slack_service.py
\* 172-183, email_service.py 153-161).
completion_text(status) ==
  CASE Lower(status) = "success" -> "Scan completed successfully"
    [] Lower(status) = "failed" -> "Scan failed"
    [] OTHER -> "Scan status"

\* A message as the transport of a channel receives it (session.post,
\* smtplib) together with whether the transport delivered it; config is the
\* configuration the channel service was built from (None: from no row).
Message(config, scan_data, kind, text, outcome) ==
  [config |-> config, scan_id |-> scan_data.scan_id, kind |-> kind,
   text |-> text, scan_status |-> scan_data.scan_status,
   total_vulnerabilities |-> scan_data.total_vulnerabilities,
   delivered |-> (outcome = "delivered")]

\* _send_slack_notification and _send_email_notification (service.py 316-360):
\* the messages one configuration's channel is handed for the scan.
send_notification(cfg, scan_data, outcome) ==
  IF outcome = "raised" THEN {}
  ELSE IF scan_data.scan_status = "SUCCESS"
  THEN {Message(Some(cfg), scan_data, "completion",
                completion_text(scan_data.scan_status), outcome)}
  ELSE IF scan_data.scan_status = "FAILED"
  THEN {Message(Some(cfg), scan_data, "failure", "Scan failed", outcome)}
  ELSE {}

\* service.py 304-307: the channels the loop of _send_scan_notifications
\* serves.
is_served(cfg) ==
  \/ cfg.type = "chat" /\ cfg.service = "Slack" /\ cfg.is_active
  \/ cfg.type = "email" /\ cfg.is_active

\* ScannerService._send_scan_notifications: the messages sent for a record
\* of group `group`; `loaded` tells whether the configuration query worked.
notification_targets(group, loaded) ==
  IF group = None \/ ~loaded THEN {}
  ELSE {cfg \in get_configurations_by_group(group[1]) : is_served(cfg)}
send_scan_notifications(rec, group, loaded, outcome) ==
  UNION {send_notification(cfg, ScanData(rec), outcome[cfg]) :
           cfg \in notification_targets(group, loaded)}

\* ------------------------------------------------ the notification manager
\* The orders in which a query without ORDER BY may return the rows of S.
Perms(S) ==
  {f \in [1..Cardinality(S) -> S] :
     \A i, j \in 1..Cardinality(S) : f[i] = f[j] => i = j}

\* The rows _initialize_services queries (notification_manager.py 22).
ActiveConfigs == {cfg \in configs : cfg.is_active}

\* The loop of _initialize_services (24-64) over the rows in `order`;
\* valid[config] tells whether its webhook_url is a Slack webhook URL (26,
\* slack_service.py 316).  create_email_service is called with the keyword
\* subject_template (45-54), which it does not accept (email_service.py
\* 276-277): an email row raises TypeError and ends the loop.
RECURSIVE initialize_services(_, _, _)
initialize_services(order, valid, slack_services) ==
  IF order = <<>>
  THEN [slack_services |-> slack_services, failed |-> FALSE]
  ELSE LET config == Head(order) IN
       IF config.type = "chat" /\ config.service = "Slack"
       THEN initialize_services(
              Tail(order), valid,
              IF valid[config]
              THEN Append(slack_services, [config |-> Some(config)])
              ELSE slack_services)
       ELSE IF config.type = "chat" /\ config.service = "Teams"
       THEN initialize_services(Tail(order), valid, slack_services)
       ELSE IF config.type = "email"
       THEN [slack_services |-> slack_services, failed |-> TRUE]
       ELSE initialize_services(Tail(order), valid, slack_services)

\* NotificationManager(): __init__ and _initialize_services; when the query
\* or the loop raises, _initialize_from_env (74-82) adds a Slack service that
\* has no config attribute.
NewNotificationManager(loaded, order, valid, env) ==
  LET r == IF loaded THEN initialize_services(order, valid, <<>>)
           ELSE [slack_services |-> <<>>, failed |-> TRUE]
  IN [slack_services |-> IF r.failed /\ env
                         THEN Append(r.slack_services, [config |-> None])
                         ELSE r.slack_services,
      email_services |-> <<>>]

\* _should_send_alert
should_send_alert(scan_data) == scan_data.total_vulnerabilities > 0

\* SlackNotificationService.send_vulnerability_alert (slack_service.py
\* 77-98): colour, emoji and urgency are assigned only when the critical,
\* high or medium count is positive; otherwise building the message raises
\* and the method returns None without sending.
slack_alert_builds(scan_data) ==
  \/ scan_data.critical_count > 0
  \/ scan_data.high_count > 0
  \/ scan_data.medium_count > 0

\* The text of the message a send_* call builds.
dispatch_text(call, scan_data) ==
  CASE call = "alert" -> "Vulnerability Alert"
    [] call = "completion" -> completion_text(scan_data.scan_status)
    [] OTHER -> "Test Message"

\* One loop of a send_* method over the services of a channel kind, from the
\* i-th on (notification_manager.py 91-114, 116-139 and alike).  A service
\* sends first; the entry is appended afterwards and reads service.config,
\* which raises out of the method for a service without that attribute.
RECURSIVE serve(_, _, _, _, _, _, _)
serve(services, i, channel, call, scan_data, outcome, acc) ==
  IF i > Len(services) THEN acc
  ELSE LET service == services[i]
           builds == /\ outcome[i] # "raised"
                     /\ (channel = "slack" /\ call = "alert")
                          => slack_alert_builds(scan_data)
           messages == IF builds
                       THEN {Message(service.config, scan_data, call,
                                     dispatch_text(call, scan_data), outcome[i])}
                       ELSE {}
           success == IF builds THEN Some(outcome[i] = "delivered") ELSE None
       IN IF service.config = None
          THEN [acc EXCEPT !.messages = @ \cup messages, !.thrown = TRUE]
          ELSE serve(services, i + 1, channel, call, scan_data, outcome,
                     [acc EXCEPT !.messages = @ \cup messages,
                                 !.entries = Append(@, [config_name |-> service.config[1],
                                                        success |-> success])])

\* send_vulnerability_alert, send_scan_completion_notification and
\* send_test_message of NotificationManager: the Slack loop, then the email
\* loop.  should_send is computed and logged (87-89) and the loops run
\* whatever it is; the methods have no return statement.
manager_send(mgr, call, scan_data, slack_outcome, email_outcome) ==
  LET none == [entries |-> <<>>, messages |-> {}, thrown |-> FALSE]
      slack == serve(mgr.slack_services, 1, "slack", call, scan_data,
                     slack_outcome, none)
      email == IF slack.thrown THEN none
               ELSE serve(mgr.email_services, 1, "email", call, scan_data,
                          email_outcome, none)
  IN [call |-> call,
      results |-> [slack |-> slack.entries, teams |-> <<>>,
                   email |-> email.entries],
      messages |-> slack.messages \cup email.messages,
      thrown |-> slack.thrown \/ email.thrown,
      returned |-> None]

\* --------------------------------------------------------------- reports
\* The clock counts half days: timedelta(days=d) is d * TicksPerDay ticks and
\* datetime.date() is the day a tick falls on. The server's local time is UTC
\* (datetime.now() and datetime.utcnow() read the same clock).
TicksPerDay == 2
timedelta(days) == days * TicksPerDay
date(t) == t \div TicksPerDay
\* strftime("%b %d"): the month and the day of a date, without its year.
strftime(day) == day % 365

\* DatabaseConstants.SCAN_STATUSES
SCAN_STATUSES == <<"SUCCESS", "FAILED", "IN_PROGRESS">>

\* VulnerabilityScan.query: the rows of the scans table.
ScanRows == {store_scans[i] : i \in DOMAIN store_scans}

\* sum(column) over rows (0 for no rows).
SumColumn(rows, column) == SumOver([r \in rows |-> r[column]], rows)

\* successful_scans / total_scans * 100 if total_scans > 0 else 0: the float
\* is kept as the fraction num / den.
success_rate(successful_scans, total_scans) ==
  IF total_scans > 0
  THEN [num |-> successful_scans * 100, den |-> total_scans]
  ELSE [num |-> 0, den |-> 1]

\* ScanMapper.get_scan_statistics (scan_mapper.py 63-129).
ScanMapper_get_scan_statistics(group, days) ==
  LET cutoff_date == now - timedelta(days)
      scans == {s \in ScanRows : /\ s.group_id = group
                                 /\ s.created_at >= cutoff_date}
      total_scans == Cardinality(scans)
      successful_scans ==
        Cardinality({s \in scans : s.scan_status = SCAN_STATUSES[1]})
  IN [total_scans |-> total_scans,
      successful_scans |-> successful_scans,
      success_rate |-> success_rate(successful_scans, total_scans),
      critical_count |-> SumColumn(scans, "critical_count"),
      high_count |-> SumColumn(scans, "high_count"),
      medium_count |-> SumColumn(scans, "medium_count"),
      low_count |-> SumColumn(scans, "low_count")]

\* ScannerService.get_scan_statistics (service.py 207-266): the scans of every
\* group. top_vulnerable_images is kept as the set of its entries (nothing in
\* the model reads their order, and there are fewer than ten images).
ScannerService_get_scan_statistics(days) ==
  LET cutoff_date == now - timedelta(days)
      scans == {s \in ScanRows : s.created_at >= cutoff_date}
      total_scans == Cardinality(scans)
      successful_scans == Cardinality({s \in scans : s.scan_status = "SUCCESS"})
      of_image(name) == {s \in scans : s.image_name = name}
  IN [period_days |-> days,
      total_scans |-> total_scans,
      successful_scans |-> successful_scans,
      failed_scans |-> Cardinality({s \in scans : s.scan_status = "FAILED"}),
      success_rate |-> success_rate(successful_scans, total_scans),
      vulnerabilities |->
        [total |-> SumColumn(scans, "total_vulnerabilities"),
         critical |-> SumColumn(scans, "critical_count"),
         high |-> SumColumn(scans, "high_count"),
         medium |-> SumColumn(scans, "medium_count"),
         low |-> SumColumn(scans, "low_count")],
      top_vulnerable_images |->
        {[image_name |-> name,
          total_vulns |-> SumColumn(of_image(name), "total_vulnerabilities"),
          critical_vulns |-> SumColumn(of_image(name), "critical_count"),
          high_vulns |-> SumColumn(of_image(name), "high_count"),
          scan_count |-> Cardinality(of_image(name))] :
           name \in {s.image_name : s \in scans}}]

\* chart_data = {"labels": [], "critical": [], ...}
EmptyChart ==
  [labels |-> <<>>, critical |-> <<>>, high |-> <<>>, medium |-> <<>>,
   low |-> <<>>]

\* The scans a chart query reads: those of the group whose scan_timestamp lies
\* in [start_date, end_date] (a NULL timestamp satisfies no comparison).
ChartScans(group, start_date, end_date) ==
  {s \in ScanRows : /\ s.group_id = group
                    /\ s.scan_timestamp # None
                    /\ s.scan_timestamp[1] >= start_date
                    /\ s.scan_timestamp[1] <= end_date}

\* The scans of one bucket: scan.scan_timestamp.date() == current_date.date().
DayScans(scans, current_date) ==
  {s \in scans : /\ s.scan_timestamp # None
                 /\ date(s.scan_timestamp[1]) = date(current_date)}

\* One bucket appended to the chart.
AppendBucket(chart, label, critical, high, medium, low) ==
  [labels |-> Append(chart.labels, label),
   critical |-> Append(chart.critical, critical),
   high |-> Append(chart.high, high),
   medium |-> Append(chart.medium, medium),
   low |-> Append(chart.low, low)]

\* The loop of ScanMapper.get_chart_data (scan_mapper.py 152-173). The locals
\* critical, high, medium and low are assigned only under `if day_scans:`,
\* where line 168 leaves them 0; `bound` tells whether an earlier iteration
\* assigned them. Appending them unassigned raises UnboundLocalError.
RECURSIVE get_chart_data_loop(_, _, _, _, _, _)
get_chart_data_loop(scans, start_date, days, i, bound, chart) ==
  IF i >= days THEN [raised |-> None, chart_data |-> Some(chart)]
  ELSE LET current_date == start_date + timedelta(i)
           day_scans == DayScans(scans, current_date)
       IN IF day_scans = {} /\ ~bound
          THEN [raised |-> Some("UnboundLocalError"), chart_data |-> None]
          ELSE get_chart_data_loop(
                 scans, start_date, days, i + 1, TRUE,
                 AppendBucket(chart, strftime(date(current_date)), 0, 0, 0, 0))

\* ScanMapper.get_chart_data (scan_mapper.py 131-175).
ScanMapper_get_chart_data(group, days) ==
  LET end_date == now
      start_date == end_date - timedelta(days)
  IN get_chart_data_loop(ChartScans(group, start_date, end_date),
                         start_date, days, 0, FALSE, EmptyChart)

\* The loop of the dashboard's chart_data route (dashboard/routes.py 159-180).
RECURSIVE chart_data_loop(_, _, _, _, _)
chart_data_loop(scans, start_date, days, i, chart) ==
  IF i >= days THEN chart
  ELSE LET current_date == start_date + timedelta(i)
           day_scans == DayScans(scans, current_date)
       IN chart_data_loop(
            scans, start_date, days, i + 1,
            AppendBucket(chart, strftime(date(current_date)),
                         SumColumn(day_scans, "critical_count"),
                         SumColumn(day_scans, "high_count"),
                         SumColumn(day_scans, "medium_count"),
                         SumColumn(day_scans, "low_count")))

\* The chart_data route (dashboard/routes.py 123-185) for the session's
\* selected group.
chart_data(selected_group_id, days) ==
  IF selected_group_id = None
  THEN [raised |-> None, status |-> 400, chart_data |-> None]
  ELSE LET end_date == now
           start_date == end_date - timedelta(days)
       IN [raised |-> None, status |-> 200,
           chart_data |->
             Some(chart_data_loop(
                    ChartScans(selected_group_id[1], start_date, end_date),
                    start_date, days, 0, EmptyChart))]

\* ------------------------------------------------------------------ Init
GateIdle ==
  /\ gate_counts = [critical_count |-> 0, high_count |-> 0,
                    medium_count |-> 0, low_count |-> 0]
  /\ gate_threshold = "HIGH"
  /\ gate_result = None

\* notification_manager = None (notification_manager.py 290); nothing is
\* dispatched through it.
ManagerIdle ==
  /\ env_slack = FALSE
  /\ manager = None
  /\ dispatch_scan = None
  /\ dispatch = None

\* No reporting query has run and no backend has been called on its own.
ReportIdle ==
  /\ report = None
  /\ backend_call = None
  /\ probe = None

\* One call of scan_image ("c1") runs in Spec; "c2" is not started.
PipelineIdle ==
  /\ pc = [c \in Calls |-> IF c = "c1" THEN "idle" ELSE "off"]
  /\ scan_record = [c \in Calls |-> NewScanRecord("", "")]
  /\ scan_result = [c \in Calls |-> NoResult]
  /\ tx_vulns = [c \in Calls |-> EmptyBag]
  /\ excepted_cves = [c \in Calls |-> {}]
  /\ exc = [c \in Calls |-> None]
  /\ raised = [c \in Calls |-> None]
  /\ store_scans = <<>>
  /\ store_vulns = EmptyBag
  /\ exceptions = {}
  /\ now = 0
  /\ filter_runs = [c \in Calls |-> 0]
  /\ sent = {}

\* The scan route (bp.py 49-53) calls scan_image without a group_id.
PipelineInit ==
  /\ PipelineIdle
  /\ group_id = [c \in Calls |-> None]
  /\ configs = {}

Init == PipelineInit /\ GateIdle /\ ManagerIdle /\ ReportIdle

\* ------------------------------------------------- ScannerService.scan_image
\* A step of the try block raises: control passes to the except clause.
Raise(c, message) ==
  /\ pc' = [pc EXCEPT ![c] = "handler"]
  /\ exc' = [exc EXCEPT ![c] = Some(message)]

\* service.py 28-40: the call starts and constructs the record.
ScanImage(c, image_name, image_tag) ==
  /\ pc[c] = "idle"
  /\ pc' = [pc EXCEPT ![c] = "create"]
  /\ scan_record' = [scan_record EXCEPT
                       ![c] = NewScanRecord(image_name, image_tag)]
  /\ UNCHANGED <<scan_result, tx_vulns, excepted_cves, exc, raised,
                 store_scans, store_vulns, exceptions, now>>
  /\ UNCHANGED <<filter_runs, notify_vars, side_vars>>

\* service.py 43-44: db.session.add(scan_record); db.session.commit().
CreateRecord(c) ==
  /\ pc[c] = "create"
  /\ \E ok \in BOOLEAN :
       IF ok
       THEN /\ store_scans' = commit_scan(store_scans, scan_record[c])
            /\ scan_record' = [scan_record EXCEPT
                                 ![c] = with_primary_key(@, store_scans)]
            /\ pc' = [pc EXCEPT ![c] = "backend"]
            /\ UNCHANGED exc
       ELSE /\ Raise(c, "storage error")
            /\ UNCHANGED <<store_scans, scan_record>>
  /\ UNCHANGED <<scan_result, tx_vulns, excepted_cves, raised, store_vulns,
                 exceptions, now>>
  /\ UNCHANGED <<filter_runs, notify_vars, side_vars>>

\* service.py 47-50: self.scanner.scan_image(...) and _update_scan_record.
BackendScan(c) ==
  /\ pc[c] = "backend"
  /\ IF ~validate_image_name(scan_record[c].image_name)
     THEN /\ Raise(c, "Invalid image name")
          /\ UNCHANGED <<scan_result, scan_record>>
     ELSE IF ~validate_image_tag(scan_record[c].image_tag)
     THEN /\ Raise(c, "Invalid image tag")
          /\ UNCHANGED <<scan_result, scan_record>>
     ELSE \E outcome \in SubprocessOutcomes,
             raw \in BoundedSeq(RawFindings, MaxFindings) :
            LET result == backend_scan_image(outcome, raw) IN
            /\ outcome # "exit0" => raw = <<>>
            /\ scan_result' = [scan_result EXCEPT ![c] = result]
            /\ scan_record' = [scan_record EXCEPT
                                 ![c] = update_scan_record(@, result)]
            /\ pc' = [pc EXCEPT ![c] = "store"]
            /\ UNCHANGED exc
  /\ UNCHANGED <<tx_vulns, excepted_cves, raised, store_scans, store_vulns,
                 exceptions, now>>
  /\ UNCHANGED <<filter_runs, notify_vars, side_vars>>

\* service.py 53: _store_vulnerabilities adds one row per finding.
StoreVulnerabilities(c) ==
  /\ pc[c] = "store"
  /\ tx_vulns' = [tx_vulns EXCEPT
                    ![c] = @ (+) store_vulnerabilities(scan_record[c],
                                                       scan_result[c])]
  /\ pc' = [pc EXCEPT ![c] = "filter"]
  /\ UNCHANGED <<scan_record, scan_result, excepted_cves, exc, raised, store_scans,
                 store_vulns, exceptions, now>>
  /\ UNCHANGED <<filter_runs, notify_vars, side_vars>>

\* service.py 56: _apply_exceptions; its queries flush the pending rows and
\* may fail.
ApplyExceptions(c) ==
  /\ pc[c] = "filter"
  /\ \E ok \in BOOLEAN :
       IF ok
       THEN LET cves == ExceptedCves(scan_record[c].image_name, now) IN
            /\ excepted_cves' = [excepted_cves EXCEPT ![c] = cves]
            /\ tx_vulns' = [tx_vulns EXCEPT
                              ![c] = RemoveExcepted(@, scan_record[c].id, cves)]
            /\ filter_runs' = [filter_runs EXCEPT ![c] = @ + 1]
            /\ pc' = [pc EXCEPT ![c] = "count"]
            /\ UNCHANGED exc
       ELSE /\ Raise(c, "storage error")
            /\ UNCHANGED <<excepted_cves, tx_vulns, filter_runs>>
  /\ UNCHANGED <<scan_record, scan_result, raised, store_scans, store_vulns,
                 exceptions, now>>
  /\ UNCHANGED <<notify_vars, side_vars>>

\* _apply_exceptions (service.py 110-134) applied a second time to a scan
\* whose findings it has filtered, before the counts are recomputed.
ReapplyExceptions(c) ==
  /\ pc[c] = "count"
  /\ filter_runs[c] = 1
  /\ \E ok \in BOOLEAN :
       IF ok
       THEN LET cves == ExceptedCves(scan_record[c].image_name, now) IN
            /\ excepted_cves' = [excepted_cves EXCEPT ![c] = cves]
            /\ tx_vulns' = [tx_vulns EXCEPT
                              ![c] = RemoveExcepted(@, scan_record[c].id, cves)]
            /\ filter_runs' = [filter_runs EXCEPT ![c] = @ + 1]
            /\ UNCHANGED <<pc, exc>>
       ELSE /\ Raise(c, "storage error")
            /\ UNCHANGED <<excepted_cves, tx_vulns, filter_runs>>
  /\ UNCHANGED <<scan_record, scan_result, raised, store_scans, store_vulns,
                 exceptions, now>>
  /\ UNCHANGED <<notify_vars, side_vars>>

\* service.py 59: _update_vulnerability_counts; the GROUP BY query may fail,
\* and it runs before any counter is assigned.
UpdateVulnerabilityCounts(c) ==
  /\ pc[c] = "count"
  /\ \E ok \in BOOLEAN :
       IF ok
       THEN /\ scan_record' = [scan_record EXCEPT
                                 ![c] = update_vulnerability_counts(
                                          @, VisibleVulns(c))]
            /\ pc' = [pc EXCEPT ![c] = "commit"]
            /\ UNCHANGED exc
       ELSE /\ Raise(c, "storage error")
            /\ UNCHANGED scan_record
  /\ UNCHANGED <<scan_result, tx_vulns, excepted_cves, raised, store_scans,
                 store_vulns, exceptions, now>>
  /\ UNCHANGED <<filter_runs, notify_vars, side_vars>>

\* service.py 61: db.session.commit() writes the record and the rows of the
\* transaction in one transaction.
CommitScan(c) ==
  /\ pc[c] = "commit"
  /\ \E ok \in BOOLEAN :
       IF ok
       THEN /\ store_scans' = commit_scan(store_scans, scan_record[c])
            /\ store_vulns' = store_vulns (+) tx_vulns[c]
            /\ tx_vulns' = [tx_vulns EXCEPT ![c] = EmptyBag]
            /\ pc' = [pc EXCEPT ![c] = "notify"]
            /\ UNCHANGED exc
       ELSE /\ Raise(c, "storage error")
            /\ UNCHANGED <<store_scans, store_vulns, tx_vulns>>
  /\ UNCHANGED <<scan_record, scan_result, excepted_cves, raised, exceptions,
                 now>>
  /\ UNCHANGED <<filter_runs, notify_vars, side_vars>>

\* service.py 68-70 and 268-314: _send_scan_notifications loads the group's
\* configurations and serves each; every exception is caught (per channel at
\* 308, 333 and 359, around the whole at 313); nothing is written to the
\* store; scan_image returns the record.
SendScanNotifications_reraising(c) ==
  /\ pc[c] = "notify"
  /\ \E loaded \in BOOLEAN :
     \E outcome \in [notification_targets(group_id[c], loaded)
                       -> DeliveryOutcomes] :
       /\ sent' = sent \cup send_scan_notifications(scan_record[c], group_id[c],
                                                   loaded, outcome)
       /\ IF ~loaded \/ \E cfg \in DOMAIN outcome : outcome[cfg] = "raised"
          THEN Raise(c, "notification error")
          ELSE pc' = [pc EXCEPT ![c] = "returned"] /\ UNCHANGED exc
  /\ UNCHANGED <<scan_record, scan_result, tx_vulns, excepted_cves,
                 raised, store_scans, store_vulns, exceptions, now>>
  /\ UNCHANGED <<filter_runs, group_id, configs, side_vars>>
SendScanNotifications(c) ==
  /\ pc[c] = "notify"
  /\ \E loaded \in BOOLEAN :
     \E outcome \in [notification_targets(group_id[c], loaded)
                       -> DeliveryOutcomes] :
       sent' = sent \cup send_scan_notifications(scan_record[c], group_id[c],
                                                loaded, outcome)
  /\ pc' = [pc EXCEPT ![c] = "returned"]
  /\ UNCHANGED <<scan_record, scan_result, tx_vulns, excepted_cves, exc,
                 raised, store_scans, store_vulns, exceptions, now>>
  /\ UNCHANGED <<filter_runs, group_id, configs, side_vars>>

\* service.py 72-80: the except clause.  The failed step may have left the
\* session rolled back (its pending rows and attribute changes are gone, a
\* never-inserted record is no longer in the session); the handler sets
\* FAILED and the message and commits; the commit may fail, and then its
\* error is what leaves scan_image.
ErrorHandler(c) ==
  /\ pc[c] = "handler"
  /\ \E rolled_back \in BOOLEAN, ok \in BOOLEAN :
       LET rec0 == IF rolled_back /\ scan_record[c].id # 0
                   THEN store_scans[scan_record[c].id]
                   ELSE scan_record[c]
           rows0 == IF rolled_back THEN EmptyBag ELSE tx_vulns[c]
           rec1 == mark_failed(rec0, exc[c])
           in_session == ~(rolled_back /\ rec1.id = 0)
       IN
       /\ IF ok
          THEN /\ store_scans' = IF in_session
                                 THEN commit_scan(store_scans, rec1)
                                 ELSE store_scans
               /\ scan_record' = [scan_record EXCEPT
                                    ![c] = IF in_session
                                           THEN with_primary_key(rec1, store_scans)
                                           ELSE rec1]
               /\ store_vulns' = store_vulns (+) rows0
               /\ tx_vulns' = [tx_vulns EXCEPT ![c] = EmptyBag]
               /\ raised' = [raised EXCEPT ![c] = exc[c]]
          ELSE /\ scan_record' = [scan_record EXCEPT ![c] = rec1]
               /\ tx_vulns' = [tx_vulns EXCEPT ![c] = rows0]
               /\ raised' = [raised EXCEPT ![c] = Some("commit error")]
               /\ UNCHANGED <<store_scans, store_vulns>>
  /\ pc' = [pc EXCEPT ![c] = "raised"]
  /\ UNCHANGED <<scan_result, excepted_cves, exc, exceptions, now>>
  /\ UNCHANGED <<filter_runs, notify_vars, side_vars>>

\* ------------------------------------------------------------ environment
ExceptionRows ==
  [cve_id : ExceptionCVEIds, image_name : ExceptionScopes, is_active : BOOLEAN,
   expires_at : ExpiryTimes]

\* An operator approves an exception (a scan_exceptions row is committed).
CreateException(ex) ==
  /\ Cardinality(exceptions) < MaxExceptions
  /\ ex \notin exceptions
  /\ exceptions' = exceptions \cup {ex}
  /\ UNCHANGED <<pc, scan_record, scan_result, tx_vulns, excepted_cves, exc,
                 raised, store_scans, store_vulns, now>>
  /\ UNCHANGED <<filter_runs, notify_vars, side_vars>>

\* Time passes.
Tick ==
  /\ now < MaxTime
  /\ now' = now + 1
  /\ UNCHANGED <<pc, scan_record, scan_result, tx_vulns, excepted_cves, exc,
                 raised, store_scans, store_vulns, exceptions>>
  /\ UNCHANGED <<filter_runs, notify_vars, side_vars>>

Next ==
  \/ \E c \in Calls, image_name \in ImageNames, image_tag \in ImageTags :
       ScanImage(c, image_name, image_tag)
  \/ \E c \in Calls : CreateRecord(c)
  \/ \E c \in Calls : BackendScan(c)
  \/ \E c \in Calls : StoreVulnerabilities(c)
  \/ \E c \in Calls : ApplyExceptions(c)
  \/ \E c \in Calls : UpdateVulnerabilityCounts(c)
  \/ \E c \in Calls : CommitScan(c)
  \/ \E c \in Calls : SendScanNotifications(c)
  \/ \E c \in Calls : ErrorHandler(c)
  \/ \E ex \in ExceptionRows : CreateException(ex)
  \/ Tick

Spec == Init /\ [][Next]_vars

\* ---------------------------------------- scans with a group and channels
\* scan_image is called with the group_id of ScanGroups while the group's
\* notification configurations are in the store.
NotifyInit ==
  /\ PipelineIdle
  /\ group_id \in {[c \in Calls |-> IF c = "c1" THEN g ELSE None] :
                     g \in ScanGroups}
  /\ configs \in {S \in SUBSET ConfigRows : Cardinality(S) <= MaxConfigs}
  /\ GateIdle /\ ManagerIdle /\ ReportIdle

NotifyNext ==
  \/ \E c \in Calls, image_name \in ImageNames, image_tag \in ImageTags :
       ScanImage(c, image_name, image_tag)
  \/ \E c \in Calls : CreateRecord(c)
  \/ \E c \in Calls : BackendScan(c)
  \/ \E c \in Calls : StoreVulnerabilities(c)
  \/ \E c \in Calls : ApplyExceptions(c)
  \/ \E c \in Calls : UpdateVulnerabilityCounts(c)
  \/ \E c \in Calls : CommitScan(c)
  \/ \E c \in Calls : SendScanNotifications(c)
  \/ \E c \in Calls : ErrorHandler(c)

NotifySpec == NotifyInit /\ [][NotifyNext]_vars

\* ------------------------------------ dispatch through NotificationManager
\* The counters of a stored scan: all zero, or one finding; the total is the
\* sum (scan_image) or the column default 0 (a row whose counters were
\* written without the total, as ScanMapper.update_scan allows).
DispatchScans ==
  {r \in [id : {1}, group_id : {1}, image_name : {"nginx"},
          scan_status : {"SUCCESS", "FAILED", "TIMEOUT"},
          total_vulnerabilities : 0..1, critical_count : 0..1,
          high_count : {0}, medium_count : {0}, low_count : 0..1] :
     /\ r.critical_count + r.low_count <= 1
     /\ r.total_vulnerabilities \in {0, r.critical_count + r.low_count}}

\* send_test_message has no scan.
TestData ==
  [scan_id |-> 0, scan_status |-> "", total_vulnerabilities |-> 0]

ManagerInit ==
  /\ PipelineIdle
  /\ group_id = [c \in Calls |-> None]
  /\ configs \in {S \in SUBSET ConfigRows : Cardinality(S) <= MaxConfigs}
  /\ GateIdle /\ ReportIdle
  /\ env_slack \in BOOLEAN
  /\ manager = None
  /\ dispatch_scan \in DispatchScans
  /\ dispatch = None

\* get_notification_manager (notification_manager.py 293-297) constructs the
\* singleton on first use.
GetNotificationManager ==
  /\ manager = None
  /\ \E loaded \in BOOLEAN, order \in Perms(ActiveConfigs),
        valid \in [ActiveConfigs -> BOOLEAN] :
       manager' = Some(NewNotificationManager(loaded, order, valid, env_slack))
  /\ UNCHANGED <<env_slack, dispatch_scan, dispatch>>
  /\ UNCHANGED <<scan_vars, notify_vars, gate_vars, report_vars>>

\* A send_* method of the manager is called (with the scan's data). One
\* dispatch is followed per behaviour.
ManagerSend(call) ==
  /\ manager # None
  /\ dispatch = None
  /\ LET mgr == manager[1]
         data == IF call = "test" THEN TestData ELSE ScanData(dispatch_scan)
     IN \E slack_outcome \in [1..Len(mgr.slack_services) -> DeliveryOutcomes],
           email_outcome \in [1..Len(mgr.email_services) -> DeliveryOutcomes] :
          LET d == manager_send(mgr, call, data, slack_outcome, email_outcome) IN
          /\ dispatch' = Some([call |-> d.call, results |-> d.results,
                               thrown |-> d.thrown, returned |-> d.returned])
          /\ sent' = sent \cup d.messages
  /\ UNCHANGED <<env_slack, manager, dispatch_scan>>
  /\ UNCHANGED <<scan_vars, group_id, configs, gate_vars, report_vars>>

\* send_vulnerability_alert, send_scan_completion_notification and
\* send_test_message.
DispatchCalls == {"alert", "completion", "test"}

ManagerNext ==
  \/ GetNotificationManager
  \/ \E call \in DispatchCalls : ManagerSend(call)

ManagerSpec == ManagerInit /\ [][ManagerNext]_vars

\* ------------------------------------- the exception filter, applied again
ReapplyNext ==
  \/ Next
  \/ \E c \in Calls : ReapplyExceptions(c)

ReapplySpec == Init /\ [][ReapplyNext]_vars

\* ------------------------------------------------ scans that run together
\* Two calls of scan_image, each with its own session (db.session is scoped
\* to the thread of the request), interleave step by step over one store; the
\* exceptions an operator approved are in the store before the calls start.
ConcurrentInit ==
  /\ pc = [c \in Calls |-> "idle"]
  /\ scan_record = [c \in Calls |-> NewScanRecord("", "")]
  /\ scan_result = [c \in Calls |-> NoResult]
  /\ tx_vulns = [c \in Calls |-> EmptyBag]
  /\ excepted_cves = [c \in Calls |-> {}]
  /\ exc = [c \in Calls |-> None]
  /\ raised = [c \in Calls |-> None]
  /\ store_scans = <<>>
  /\ store_vulns = EmptyBag
  /\ exceptions \in {{}, {[cve_id |-> "CVE-1", image_name |-> None,
                           is_active |-> TRUE, expires_at |-> None]}}
  /\ now = 0
  /\ filter_runs = [c \in Calls |-> 0]
  /\ sent = {}
  /\ group_id = [c \in Calls |-> None]
  /\ configs = {}
  /\ GateIdle /\ ManagerIdle /\ ReportIdle

\* Raw findings of the scans that run together: one an exception for "CVE-1"
\* removes and one it leaves.
ConcurrentFindings ==
  {[VulnerabilityID |-> "CVE-1", Severity |-> "HIGH"],
   [VulnerabilityID |-> "cve-1", Severity |-> "UNKNOWN"]}

\* service.py 47-50 for a valid image name and tag: self.scanner.scan_image(...)
\* and _update_scan_record.
ConcurrentBackendScan(c) ==
  /\ pc[c] = "backend"
  /\ validate_image_name(scan_record[c].image_name)
  /\ validate_image_tag(scan_record[c].image_tag)
  /\ \E outcome \in SubprocessOutcomes,
        raw \in BoundedSeq(ConcurrentFindings, MaxTogether) :
       LET result == backend_scan_image(outcome, raw) IN
       /\ outcome # "exit0" => raw = <<>>
       /\ scan_result' = [scan_result EXCEPT ![c] = result]
       /\ scan_record' = [scan_record EXCEPT
                            ![c] = update_scan_record(@, result)]
       /\ pc' = [pc EXCEPT ![c] = "store"]
  /\ UNCHANGED <<tx_vulns, excepted_cves, exc, raised, store_scans, store_vulns,
                 exceptions, now>>
  /\ UNCHANGED <<filter_runs, notify_vars, side_vars>>

\* Both calls scan the same image and tag.
ConcurrentNext ==
  \/ \E c \in Calls : ScanImage(c, "nginx", "latest")
  \/ \E c \in Calls : CreateRecord(c)
  \/ \E c \in Calls : ConcurrentBackendScan(c)
  \/ \E c \in Calls : StoreVulnerabilities(c)
  \/ \E c \in Calls : ApplyExceptions(c)
  \/ \E c \in Calls : UpdateVulnerabilityCounts(c)
  \/ \E c \in Calls : CommitScan(c)
  \/ \E c \in Calls : SendScanNotifications(c)
  \/ \E c \in Calls : ErrorHandler(c)

ConcurrentSpec == ConcurrentInit /\ [][ConcurrentNext]_vars

\* ------------------------------------------------- build gating, applied
GateInit ==
  /\ PipelineInit /\ ManagerIdle /\ ReportIdle
  /\ gate_counts \in CountVectors
  /\ gate_threshold \in Thresholds
  /\ gate_result = None

\* should_fail_build is called with the counts and the threshold.
GateEvaluate ==
  /\ gate_result = None
  /\ gate_result' = Some(GateDecisions(gate_counts, gate_threshold))
  /\ UNCHANGED <<gate_counts, gate_threshold>>
  /\ UNCHANGED <<pipeline_vars, manager_vars, report_vars>>

\* One severity's count goes from 0 to a positive value and the decision is
\* taken again with the same threshold.
GateRaiseCount(field, k) ==
  /\ gate_result # None
  /\ gate_counts[field] = 0
  /\ gate_counts' = [gate_counts EXCEPT ![field] = k]
  /\ gate_result' = Some(GateDecisions(gate_counts', gate_threshold))
  /\ UNCHANGED gate_threshold
  /\ UNCHANGED <<pipeline_vars, manager_vars, report_vars>>

GateNext ==
  \/ GateEvaluate
  \/ \E field \in CountFields, k \in 1..MaxCount : GateRaiseCount(field, k)

GateSpec == GateInit /\ [][GateNext]_vars

\* ------------------------------------------------ reports over stored scans
\* The time of the queries: the afternoon after MaxDays whole days.
ReportClock == timedelta(MaxDays) + 1

\* The counters of tests/conftest.py's sample_scan (106-120), with the total
\* scan_image stores for them.
SampleCounts ==
  [total_vulnerabilities |-> 10, critical_count |-> 1, high_count |-> 2,
   medium_count |-> 3, low_count |-> 4]
NoCounts ==
  [total_vulnerabilities |-> 0, critical_count |-> 0, high_count |-> 0,
   medium_count |-> 0, low_count |-> 0]

\* A stored scan of a group: a SUCCESS scan with the sample's findings or a
\* FAILED scan without findings; scan_timestamp is the time of creation or
\* NULL (models.py 166: the column is nullable).
StoredScan(group, status, created_at, stamped) ==
  LET counts == IF status = "SUCCESS" THEN SampleCounts ELSE NoCounts IN
  [id |-> 0, group_id |-> group, image_name |-> "nginx",
   scan_status |-> status, created_at |-> created_at,
   scan_timestamp |-> IF stamped THEN Some(created_at) ELSE None,
   total_vulnerabilities |-> counts.total_vulnerabilities,
   critical_count |-> counts.critical_count,
   high_count |-> counts.high_count,
   medium_count |-> counts.medium_count,
   low_count |-> counts.low_count]

StoredScans ==
  {StoredScan(group, status, created_at, stamped) :
     group \in GroupIds, status \in {"SUCCESS", "FAILED"},
     created_at \in 0..ReportClock, stamped \in BOOLEAN}

\* Tables of at most MaxScans scans, in the order of their creation; a row's
\* id is its position.
ScanTables ==
  {[i \in DOMAIN tbl |-> [tbl[i] EXCEPT !.id = i]] :
     tbl \in {s \in BoundedSeq(StoredScans, MaxScans) :
                \A i, j \in DOMAIN s : i < j => s[i].created_at <= s[j].created_at}}

ReportInit ==
  /\ pc = [c \in Calls |-> "off"]
  /\ scan_record = [c \in Calls |-> NewScanRecord("", "")]
  /\ scan_result = [c \in Calls |-> NoResult]
  /\ tx_vulns = [c \in Calls |-> EmptyBag]
  /\ excepted_cves = [c \in Calls |-> {}]
  /\ exc = [c \in Calls |-> None]
  /\ raised = [c \in Calls |-> None]
  /\ store_scans \in ScanTables
  /\ store_vulns = EmptyBag
  /\ exceptions = {}
  /\ now = ReportClock
  /\ filter_runs = [c \in Calls |-> 0]
  /\ sent = {}
  /\ group_id = [c \in Calls |-> None]
  /\ configs = {}
  /\ GateIdle /\ ManagerIdle /\ ReportIdle

\* What a reporting query leaves behind: the call and what it returned (or
\* raised).
Returned(call, group, days, raised_, result) ==
  Some([call |-> call, group |-> group, days |-> days,
        raised |-> raised_, result |-> result])

GetScanStatistics(group, days) ==
  /\ report' = Returned("ScanMapper.get_scan_statistics", Some(group), days,
                        None, Some(ScanMapper_get_scan_statistics(group, days)))
  /\ UNCHANGED <<pipeline_vars, manager_vars, gate_vars, backend_call, probe>>

ServiceGetScanStatistics(days) ==
  /\ report' = Returned("ScannerService.get_scan_statistics", None, days,
                        None, Some(ScannerService_get_scan_statistics(days)))
  /\ UNCHANGED <<pipeline_vars, manager_vars, gate_vars, backend_call, probe>>

GetChartData(group, days) ==
  /\ LET r == ScanMapper_get_chart_data(group, days) IN
     report' = Returned("ScanMapper.get_chart_data", Some(group), days,
                        r.raised, r.chart_data)
  /\ UNCHANGED <<pipeline_vars, manager_vars, gate_vars, backend_call, probe>>

ChartDataRoute(selected_group_id, days) ==
  /\ LET r == chart_data(selected_group_id, days) IN
     report' = Returned("chart_data", selected_group_id, days,
                        r.raised, r.chart_data)
  /\ UNCHANGED <<pipeline_vars, manager_vars, gate_vars, backend_call, probe>>

ReportNext ==
  \/ \E group \in GroupIds, days \in 1..MaxDays : GetScanStatistics(group, days)
  \/ \E days \in 1..MaxDays : ServiceGetScanStatistics(days)
  \/ \E group \in GroupIds, days \in 1..MaxDays : GetChartData(group, days)
  \/ \E group \in {None} \cup {Some(g) : g \in GroupIds}, days \in 1..MaxDays :
       ChartDataRoute(group, days)

ReportSpec == ReportInit /\ [][ReportNext]_vars

\* ------------------------------------------- a backend's scan_image, alone
\* ----------------------------------------------- the output of trivy, parsed
\* What json.loads returns: a value with its Python type.  A text that is no
\* JSON makes json.loads raise JSONDecodeError.
JsonNull == [type |-> "null", value |-> <<>>]
JsonString(s) == [type |-> "str", value |-> s]
JsonList(items) == [type |-> "list", value |-> items]
JsonDict(d) == [type |-> "dict", value |-> d]
NotJson == [type |-> "text", value |-> <<>>]

\* d.get(key, default) of a dict.
dict_get(d, key, default) ==
  IF key \in DOMAIN d.value THEN d.value[key] ELSE default

\* `not v` for None and for a list.
Falsy(v) == v.type = "null" \/ (v.type = "list" /\ Len(v.value) = 0)

\* The body of the try of _parse_result_item (trivy_scanner.py 185-199) for
\* one entry: vuln.get(...) needs a dict, parse_severity calls .upper() on
\* what vuln.get('Severity', 'UNKNOWN') returned.
parse_vulnerability(vuln) ==
  IF vuln.type # "dict" THEN Raises("AttributeError")
  ELSE LET severity == dict_get(vuln, "Severity", JsonString("UNKNOWN"))
           cve_id == dict_get(vuln, "VulnerabilityID", JsonString(""))
       IN IF severity.type # "str" THEN Raises("AttributeError")
          ELSE Returns([cve_id |-> cve_id.value,
                        severity |-> parse_severity(severity.value)])

\* The loop of _parse_result_item (trivy_scanner.py 184-203): an entry whose
\* try raised is skipped.
RECURSIVE parse_vulnerabilities(_)
parse_vulnerabilities(vulns) ==
  IF vulns = <<>> THEN <<>>
  ELSE LET parsed == parse_vulnerability(Head(vulns)) IN
       (IF parsed.raised = None THEN <<parsed.result[1]>> ELSE <<>>)
         \o parse_vulnerabilities(Tail(vulns))

\* trivy_scanner.py 181-182: vulns.extend(res.get('Vulnerabilities', [])) for
\* each res of 'Results'; outside any try of _parse_result_item.
RECURSIVE extend_from_results(_, _)
extend_from_results(vulns, results) ==
  IF results = <<>> THEN Returns(vulns)
  ELSE LET res == Head(results) IN
       IF vulns.type # "list" \/ res.type # "dict"
       THEN Raises("AttributeError")
       ELSE LET more == dict_get(res, "Vulnerabilities", JsonList(<<>>)) IN
            IF more.type # "list" THEN Raises("TypeError")
            ELSE extend_from_results(JsonList(vulns.value \o more.value),
                                     Tail(results))

\* TrivyScanner._parse_result_item (trivy_scanner.py 173-205): the findings
\* of one result, or the exception that leaves it.
TrivyScanner_parse_result_item(result) ==
  IF result.type # "dict" THEN Raises("AttributeError")
  ELSE LET vulns0 == dict_get(result, "Vulnerabilities", JsonList(<<>>))
           vulns == IF Falsy(vulns0) /\ "Results" \in DOMAIN result.value
                    THEN extend_from_results(vulns0, result.value.Results.value)
                    ELSE Returns(vulns0)
       IN IF vulns.raised # None THEN vulns
          ELSE IF vulns.result[1].type # "list" THEN Raises("TypeError")
          ELSE Returns(parse_vulnerabilities(vulns.result[1].value))

\* trivy_scanner.py 161-163: the results of a list, one after the other.
RECURSIVE parse_result_items(_, _)
parse_result_items(results, vulnerabilities) ==
  IF results = <<>> THEN Returns(vulnerabilities)
  ELSE LET parsed == TrivyScanner_parse_result_item(Head(results)) IN
       IF parsed.raised # None THEN parsed
       ELSE parse_result_items(Tail(results),
                               vulnerabilities \o parsed.result[1])

\* TrivyScanner._parse_trivy_output (trivy_scanner.py 150-171): only
\* JSONDecodeError is caught.
TrivyScanner_parse_trivy_output(output) ==
  CASE output.type = "text" -> Returns(<<>>)
    [] output.type = "list" -> parse_result_items(output.value, <<>>)
    [] output.type = "dict" -> TrivyScanner_parse_result_item(output)
    [] OTHER -> Returns(<<>>)

\* What can come of subprocess.run (trivy_scanner.py 87-92): it returns with
\* exit code 0 or another, the timeout expires, the binary is missing
\* (FileNotFoundError) or the process cannot be started (OSError).
TrivyProcessOutcomes == SubprocessOutcomes \cup {"missing_binary"}

\* str(e) of the exception the except clause of scan_image catches.
ExceptionText(outcome) ==
  IF outcome = "missing_binary" THEN "No such file or directory: 'trivy'"
  ELSE "OSError"

\* TrivyScanner.scan_image after the precondition (trivy_scanner.py 63-148)
\* for what came of the subprocess and what it wrote to stdout; scan_output
\* is given by its pieces.
TrivyScanner_run(outcome, stdout, start_time, end_time) ==
  LET duration == scan_duration(start_time, end_time)
      error(text) == [scan_status |-> "ERROR", vulnerabilities |-> EmptyBag,
                      scan_output |-> <<text>>,
                      scan_duration_seconds |-> duration,
                      metadata |-> {"error"}]
  IN
  CASE outcome = "exit0" ->
         LET parsed == TrivyScanner_parse_trivy_output(stdout) IN
         IF parsed.raised # None THEN error(parsed.raised[1])
         ELSE [scan_status |-> "SUCCESS",
               vulnerabilities |-> SeqToBag(parsed.result[1]),
               scan_output |-> <<"stdout", "stderr">>,
               scan_duration_seconds |-> duration,
               metadata |-> {"trivy_command", "return_code",
                             "severity_threshold"}]
    [] outcome = "nonzero" ->
         [scan_status |-> "FAILED", vulnerabilities |-> EmptyBag,
          scan_output |-> <<"stdout", "stderr">>,
          scan_duration_seconds |-> duration,
          metadata |-> {"trivy_command", "return_code", "severity_threshold"}]
    [] outcome = "timeout" ->
         [scan_status |-> "TIMEOUT", vulnerabilities |-> EmptyBag,
          scan_output |-> <<"Scan timed out after", "seconds">>,
          scan_duration_seconds |-> duration,
          metadata |-> {"error"}]
    [] OTHER -> error(ExceptionText(outcome))

\* Entries of a 'Vulnerabilities' list: dicts with a severity string, with a
\* null severity and without one, and an item that is no dict.
TrivyEntries ==
  {JsonDict([VulnerabilityID |-> JsonString("CVE-1"), Severity |-> severity]) :
     severity \in {JsonString("CRITICAL"), JsonString("high"),
                   JsonString("UNKNOWN"), JsonNull}}
    \cup {JsonDict([VulnerabilityID |-> JsonString("cve-1")]),
          JsonString("CVE-1")}

TrivyLists == {JsonList(entries) : entries \in BoundedSeq(TrivyEntries, MaxFindings)}

\* A result without findings: trivy leaves the key out or writes null.
CleanResults ==
  {JsonDict([Target |-> JsonString("nginx")]),
   JsonDict([Target |-> JsonString("nginx"), Vulnerabilities |-> JsonNull])}

\* What trivy writes to stdout: one result, a list of results, a report with
\* 'Results' (in each case also with a result without findings first), a JSON
\* value of another type, and text that is no JSON.
TrivyOutputs ==
  LET results == {JsonDict([Target |-> JsonString("nginx"),
                            Vulnerabilities |-> vulns]) : vulns \in TrivyLists}
      several == {<<r>> : r \in results \cup CleanResults}
                   \cup {<<c, r>> : c \in CleanResults \cup {JsonString("nginx")},
                                    r \in results}
  IN results
       \cup CleanResults
       \cup {JsonList(rs) : rs \in several}
       \cup {JsonDict([SchemaVersion |-> JsonString("2"),
                       Results |-> JsonList(rs)]) : rs \in several}
       \cup {JsonString("nginx"), JsonNull, NotJson}

\* ScannerService._initialize_scanner: the backends.
ScannerTypes == {"trivy", "clair"}

\* scan_image of a backend is called (trivy_scanner.py 53-61, clair_scanner.py
\* 45-53): it reads the clock and checks the name and the tag; a ValueError
\* leaves the call at once.
BackendCall(scanner, image_name, image_tag) ==
  /\ IF backend_call = None THEN TRUE ELSE backend_call[1].pc # "running"
  /\ LET invalid == IF ~validate_image_name(image_name)
                    THEN Some("Invalid image name")
                    ELSE IF ~validate_image_tag(image_tag)
                    THEN Some("Invalid image tag")
                    ELSE None
     IN backend_call' =
          Some([scanner |-> scanner, image_name |-> image_name,
                image_tag |-> image_tag, start_time |-> now,
                pc |-> IF invalid = None THEN "running" ELSE "raised",
                raised |-> invalid, result |-> None])
  /\ UNCHANGED <<pipeline_vars, manager_vars, gate_vars, report, probe>>

\* The try block of a running call ends (trivy_scanner.py 66-148,
\* clair_scanner.py 58-107): whatever came of the subprocess or of the
\* request, a ScanResult is returned.
BackendReturn ==
  /\ backend_call # None
  /\ backend_call[1].pc = "running"
  /\ LET call == backend_call[1] IN
     \E result \in
          IF call.scanner = "trivy"
          THEN {TrivyScanner_scan_image(outcome, raw, call.start_time, now) :
                  outcome \in TrivyOutcomes,
                  raw \in BoundedSeq(RawFindings, MaxFindings)}
          ELSE {ClairScanner_scan_image(outcome, call.image_name,
                                        call.start_time, now) :
                  outcome \in ClairOutcomes} :
       backend_call' = Some([call EXCEPT !.pc = "returned",
                                        !.result = Some(result)])
  /\ UNCHANGED <<pipeline_vars, manager_vars, gate_vars, report, probe>>

ProbeOutcomes(scanner) ==
  IF scanner = "trivy" THEN TrivyProbeOutcomes ELSE ClairProbeOutcomes

\* is_available of a backend is called.
IsAvailable(scanner) ==
  /\ \E outcome \in ProbeOutcomes(scanner) :
       LET r == IF scanner = "trivy" THEN TrivyScanner_is_available(outcome)
                ELSE ClairScanner_is_available(outcome)
       IN probe' = Some([scanner |-> scanner, method |-> "is_available",
                         outcome |-> outcome, raised |-> r.raised,
                         result |-> r.result])
  /\ UNCHANGED <<pipeline_vars, manager_vars, gate_vars, report, backend_call>>

\* get_scanner_version of a backend is called.
GetScannerVersion(scanner) ==
  /\ \E outcome \in ProbeOutcomes(scanner) :
       LET r == IF scanner = "trivy"
                THEN TrivyScanner_get_scanner_version(outcome)
                ELSE ClairScanner_get_scanner_version(outcome)
       IN probe' = Some([scanner |-> scanner, method |-> "get_scanner_version",
                         outcome |-> outcome, raised |-> r.raised,
                         result |-> r.result])
  /\ UNCHANGED <<pipeline_vars, manager_vars, gate_vars, report, backend_call>>

BackendNext ==
  \/ \E scanner \in ScannerTypes :
       \E image_name \in BackendImageNames(scanner), image_tag \in ImageTags :
         BackendCall(scanner, image_name, image_tag)
  \/ BackendReturn
  \/ \E scanner \in ScannerTypes : IsAvailable(scanner)
  \/ \E scanner \in ScannerTypes : GetScannerVersion(scanner)
  \/ Tick

BackendSpec == Init /\ [][BackendNext]_vars

\* ------------------------------------------------ the trivy backend, alone
\* The try block of a running trivy call ends (trivy_scanner.py 66-148) for
\* an outcome of the subprocess and, when it exited with 0, for its stdout.
TrivyReturn ==
  /\ backend_call # None
  /\ backend_call[1].pc = "running"
  /\ LET call == backend_call[1] IN
     \E outcome \in TrivyProcessOutcomes, stdout \in TrivyOutputs :
       /\ outcome # "exit0" => stdout = NotJson
       /\ backend_call' =
            Some([scanner |-> call.scanner, image_name |-> call.image_name,
                  image_tag |-> call.image_tag, start_time |-> call.start_time,
                  pc |-> "returned", raised |-> None,
                  result |-> Some(TrivyScanner_run(outcome, stdout,
                                                   call.start_time, now)),
                  outcome |-> outcome, stdout |-> stdout])
  /\ UNCHANGED <<pipeline_vars, manager_vars, gate_vars, report, probe>>

TrivyNext ==
  \/ \E image_name \in ImageNames, image_tag \in ImageTags :
       BackendCall("trivy", image_name, image_tag)
  \/ TrivyReturn
  \/ Tick

TrivySpec == Init /\ [][TrivyNext]_vars


\* ================================================================ claims
\* Number of rows of bag `rows` that belong to scan `id` and carry `severity`.
RowsOfSeverity(rows, id, severity) ==
  SumOver(rows, {r \in DOMAIN rows : r.scan_id = id /\ r.severity = severity})
RowsOfScan(rows, id) ==
  SumOver(rows, {r \in DOMAIN rows : r.scan_id = id})
CountersSumUp(rec) ==
  rec.total_vulnerabilities =
    rec.critical_count + rec.high_count + rec.medium_count + rec.low_count
InFlight(c) == pc[c] \notin {"off", "idle"}

\* C1: every scan record, committed in the store or held by a call of
\* scan_image at any step (also after it returned or raised), has
\* total_vulnerabilities = critical_count + high_count + medium_count + low_count.
C1_TotalIsSumOfCounts ==
  /\ \A i \in 1..Len(store_scans) : CountersSumUp(store_scans[i])
  /\ \A c \in Calls : CountersSumUp(scan_record[c])
\* A returned scan whose two findings had the raw severities that normalise to
\* different counters.
C1_Witness ==
  \E c \in Calls :
    /\ pc[c] = "returned"
    /\ scan_record[c].total_vulnerabilities = 2
    /\ scan_record[c].low_count = 1
    /\ scan_record[c].high_count = 1
    /\ store_scans[scan_record[c].id].total_vulnerabilities = 2

\* The rank the severity model gives a threshold name.
Rank(name) ==
  CASE name = "CRITICAL" -> 4 [] name = "HIGH" -> 3
    [] name = "MEDIUM" -> 2 [] name = "LOW" -> 1
CountOf(counts, name) ==
  CASE name = "CRITICAL" -> counts.critical_count
    [] name = "HIGH" -> counts.high_count
    [] name = "MEDIUM" -> counts.medium_count
    [] name = "LOW" -> counts.low_count
MeetsThreshold(counts, threshold) ==
  \E name \in VULNERABILITY_SEVERITIES :
    Rank(name) >= Rank(threshold) /\ CountOf(counts, name) > 0

\* C2: for a threshold among CRITICAL, HIGH, MEDIUM, LOW, should_fail_build
\* (ScannerService and VulnerabilityScanner) is true iff some severity of rank
\* >= rank(threshold) has a count > 0.
C2_FailsIffAtOrAboveThreshold ==
  (gate_result # None /\ gate_threshold \in VULNERABILITY_SEVERITIES) =>
    /\ gate_result[1].service = MeetsThreshold(gate_counts, gate_threshold)
    /\ gate_result[1].engine = MeetsThreshold(gate_counts, gate_threshold)

\* C3: with the threshold unchanged, raising one severity's count from 0 to a
\* positive value never turns a decision of should_fail_build from true to
\* false (all three implementations).
C3_MonotonicInCounts ==
  [][(/\ gate_result # None /\ gate_result' # None
      /\ gate_threshold' = gate_threshold
      /\ \E field \in CountFields :
           /\ gate_counts[field] = 0
           /\ gate_counts'[field] > 0
           /\ \A other \in CountFields \ {field} :
                gate_counts'[other] = gate_counts[other])
     => /\ gate_result[1].utils => gate_result'[1].utils
        /\ gate_result[1].engine => gate_result'[1].engine
        /\ gate_result[1].service => gate_result'[1].service]_vars
\* A decision taken (true) again after a count has been raised from 0, the
\* critical count being the only one that can still be 0.
C3_Witness ==
  /\ gate_result # None
  /\ gate_threshold = "HIGH"
  /\ gate_counts.high_count > 0
  /\ gate_counts.medium_count > 0
  /\ gate_counts.low_count > 0
  /\ gate_counts.critical_count = 0
  /\ gate_result[1].utils /\ gate_result[1].engine /\ gate_result[1].service

StatusStepAllowed(old, new, by_handler) ==
  \/ new = old
  \/ old = "IN_PROGRESS" /\ new \in TerminalStatuses
  \/ new = "FAILED" /\ by_handler

\* C4 (as claimed): a record's status only moves from IN_PROGRESS to a terminal
\* status, and a record that holds a terminal status keeps it.
C4_TerminalStatusIsFinal ==
  [][\A c \in Calls :
       InFlight(c) =>
         StatusStepAllowed(scan_record[c].scan_status,
                           scan_record'[c].scan_status, FALSE)]_vars
\* C4 (amended): a record's status, in the session and in the store, only
\* moves from IN_PROGRESS to a terminal status, or to FAILED when the except
\* clause of scan_image runs.
C4_StatusTransitions ==
  [][/\ \A c \in Calls :
          InFlight(c) =>
            StatusStepAllowed(scan_record[c].scan_status,
                              scan_record'[c].scan_status,
                              pc[c] = "handler")
     /\ \A i \in 1..Len(store_scans) :
          StatusStepAllowed(store_scans[i].scan_status,
                            store_scans'[i].scan_status,
                            \E c \in Calls : pc[c] = "handler"
                                             /\ scan_record[c].id = i)]_vars
\* The except clause has overwritten the status the backend returned.
C4_Witness ==
  \E c \in Calls :
    /\ pc[c] = "raised"
    /\ scan_result[c].scan_status = "SUCCESS"
    /\ scan_record[c].scan_status = "FAILED"
    /\ scan_record[c].id # 0
    /\ store_scans[scan_record[c].id].scan_status = "FAILED"

\* C5: while the backend is being invoked, the call's record is already
\* committed in the store with status IN_PROGRESS.
C5_CommittedBeforeBackend ==
  \A c \in Calls :
    pc[c] = "backend" =>
      /\ scan_record[c].id \in 1..Len(store_scans)
      /\ store_scans[scan_record[c].id].scan_status = "IN_PROGRESS"
      /\ store_scans[scan_record[c].id].image_name = scan_record[c].image_name
\* The backend is about to scan a valid image.
C5_Witness ==
  \E c \in Calls :
    /\ pc[c] = "backend"
    /\ validate_image_name(scan_record[c].image_name)
    /\ Len(store_scans) = 1

\* C6: when scan_image returns (the backend returned a result and no later
\* step raised), the committed status is the status the backend returned.
C6_StatusVerbatim ==
  \A c \in Calls :
    pc[c] \in {"notify", "returned"} =>
      /\ scan_record[c].id \in 1..Len(store_scans)
      /\ store_scans[scan_record[c].id].scan_status = scan_result[c].scan_status
      /\ scan_result[c].scan_status \in TerminalStatuses
\* A scan whose backend timed out has returned.
C6_Witness ==
  \E c \in Calls :
    /\ pc[c] = "returned"
    /\ scan_result[c].scan_status = "TIMEOUT"
    /\ store_scans[scan_record[c].id].scan_status = "TIMEOUT"

\* C7: whenever scan_image has raised after its record was created, the
\* committed record is FAILED with the caught exception's message as
\* scan_output, and the error raised is the caught one.
C7_RaisedMeansFailedPersisted ==
  \A c \in Calls :
    (pc[c] = "raised" /\ scan_record[c].id # 0) =>
      /\ scan_record[c].id \in 1..Len(store_scans)
      /\ store_scans[scan_record[c].id].scan_status = "FAILED"
      /\ store_scans[scan_record[c].id].scan_output = exc[c]
      /\ raised[c] = exc[c]

CountersAre(rec, rows) ==
  /\ rec.critical_count = RowsOfSeverity(rows, rec.id, "CRITICAL")
  /\ rec.high_count = RowsOfSeverity(rows, rec.id, "HIGH")
  /\ rec.medium_count = RowsOfSeverity(rows, rec.id, "MEDIUM")
  /\ rec.low_count = RowsOfSeverity(rows, rec.id, "LOW")
  /\ rec.total_vulnerabilities = RowsOfScan(rows, rec.id)
CountersAreZero(rec) ==
  /\ rec.critical_count = 0 /\ rec.high_count = 0 /\ rec.medium_count = 0
  /\ rec.low_count = 0 /\ rec.total_vulnerabilities = 0
NoExceptedRow(rows, id, cves) ==
  \A r \in DOMAIN rows : r.scan_id = id => r.cve_id \notin cves

\* C8: the counters of a call's record stay at their initial zero until
\* findings are stored and filtered; once computed they are the per-severity
\* numbers of the filtered rows of the scan, and the record scan_image returns
\* (and commits) carries the per-severity numbers of the rows stored for its
\* id, none of which has an excepted CVE id.
C8_CountsFromFilteredFindings ==
  \A c \in Calls :
    /\ pc[c] \in {"create", "backend", "store", "filter", "count"} =>
         CountersAreZero(scan_record[c])
    /\ pc[c] = "commit" =>
         /\ CountersAre(scan_record[c], tx_vulns[c])
         /\ NoExceptedRow(tx_vulns[c], scan_record[c].id, excepted_cves[c])
    /\ pc[c] \in {"notify", "returned"} =>
         /\ CountersAre(scan_record[c], store_vulns)
         /\ CountersAre(store_scans[scan_record[c].id], store_vulns)
         /\ NoExceptedRow(store_vulns, scan_record[c].id, excepted_cves[c])
\* A returned scan of two findings of which the filter removed one.
C8_Witness ==
  \E c \in Calls :
    /\ pc[c] = "returned"
    /\ BagCardinality(scan_result[c].vulnerabilities) = 2
    /\ excepted_cves[c] # {}
    /\ scan_record[c].total_vulnerabilities = 1
    /\ RowsOfScan(store_vulns, scan_record[c].id) = 1

\* The CVE ids of the rows of scan `id`.
CvesOfScan(rows, id) == {r.cve_id : r \in {x \in DOMAIN rows : x.scan_id = id}}
FilterStep(c) == pc[c] = "filter" /\ pc'[c] = "count"
RemovedCves(c) ==
  {r.cve_id : r \in {x \in DOMAIN tx_vulns[c] :
                       /\ x.scan_id = scan_record[c].id
                       /\ CopiesIn(x, tx_vulns'[c]) < CopiesIn(x, tx_vulns[c])}}

\* C9 (as claimed): the filter removes a finding only for an exception that is
\* active and whose expires_at is absent or strictly in the future.
C9_AppliedOnlyIfExpiryInFuture ==
  [][\A c \in Calls :
       FilterStep(c) =>
         \A cve \in RemovedCves(c) :
           \E ex \in exceptions :
             /\ ex.cve_id = cve
             /\ ex.is_active
             /\ (ex.expires_at = None \/ ex.expires_at[1] > now)]_vars
\* C9 (amended): the filter removes a finding only for an exception that is
\* active and whose expires_at is absent or not earlier than the current
\* time; an exception whose expires_at is in the past removes nothing.
C9_AppliedOnlyIfNotExpired ==
  [][\A c \in Calls :
       FilterStep(c) =>
         \A cve \in RemovedCves(c) :
           \E ex \in exceptions :
             /\ ex.cve_id = cve
             /\ ex.is_active
             /\ (ex.expires_at = None \/ ex.expires_at[1] >= now)]_vars
\* The filter has run at a time past the expiry of the only exception, which
\* matches a stored finding that is still there.
C9_Witness ==
  \E c \in Calls, ex \in exceptions :
    /\ pc[c] = "count"
    /\ exceptions = {ex}
    /\ ex.is_active /\ ex.image_name = None /\ ex.expires_at = Some(1)
    /\ excepted_cves[c] = {}
    /\ ex.cve_id \in CvesOfScan(tx_vulns[c], scan_record[c].id)
    /\ now = 2

\* An exception that applies to a scan of image_name at time t.
AppliesTo(ex, image_name, t) ==
  /\ ex.is_active
  /\ (ex.expires_at = None \/ ex.expires_at[1] >= t)
  /\ (ex.image_name = None \/ ex.image_name = Some(image_name))

\* C10: the filter removes exactly the rows of the scan whose CVE id equals
\* (case-sensitively) the cve_id of a valid exception that is global or scoped
\* to the scan's image name; every other row is kept as it was.
C10_RemovesExactlyMatching ==
  [][\A c \in Calls :
       FilterStep(c) =>
         \A r \in DOMAIN tx_vulns[c] :
           IF /\ r.scan_id = scan_record[c].id
              /\ \E ex \in exceptions :
                   /\ AppliesTo(ex, scan_record[c].image_name, now)
                   /\ ex.cve_id = r.cve_id
           THEN ~BagIn(r, tx_vulns'[c])
           ELSE CopiesIn(r, tx_vulns'[c]) = CopiesIn(r, tx_vulns[c])]_vars
\* The filter has removed the finding CVE-1 and kept the finding cve-1.
C10_Witness ==
  \E c \in Calls :
    /\ pc[c] = "count"
    /\ excepted_cves[c] = {"CVE-1"}
    /\ BagCardinality(scan_result[c].vulnerabilities) = 2
    /\ CvesOfScan(tx_vulns[c], scan_record[c].id) = {"cve-1"}
    /\ \E v \in DOMAIN scan_result[c].vulnerabilities : v.cve_id = "CVE-1"

\* C11: for the same exceptions at the same time (the same excepted CVE ids),
\* applying _apply_exceptions again to a scan it has already filtered leaves
\* the scan's stored findings as they were, and so the counts recomputed from
\* them.
C11_FilterIdempotent ==
  [][\A c \in Calls :
       (/\ pc[c] = "count" /\ pc'[c] = "count"
        /\ filter_runs[c] >= 1
        /\ filter_runs'[c] = filter_runs[c] + 1
        /\ excepted_cves'[c] = excepted_cves[c])
       => /\ tx_vulns'[c] = tx_vulns[c]
          /\ update_vulnerability_counts(scan_record'[c], VisibleVulns(c)') =
               update_vulnerability_counts(scan_record[c], VisibleVulns(c))]_vars
\* The filter has run twice with the same excepted CVE id on a scan of two
\* equal findings, both of which it removed.
C11_Witness ==
  \E c \in Calls :
    /\ pc[c] = "count"
    /\ filter_runs[c] = 2
    /\ excepted_cves[c] = {"CVE-1"}
    /\ \E v \in DOMAIN scan_result[c].vulnerabilities :
         v.cve_id = "CVE-1" /\ scan_result[c].vulnerabilities[v] = 2
    /\ tx_vulns[c] = EmptyBag
    /\ exceptions # {}

\* The record of call c is stored and its owning group has at least one active
\* channel configuration.
OwnedWithActiveChannel(c) ==
  /\ scan_record[c].id \in 1..Len(store_scans)
  /\ group_id[c] # None
  /\ get_configurations_by_group(group_id[c][1]) # {}
MessagesOf(id) == {m \in sent : m.scan_id = id}

\* C12: for a scan of a group with an active channel configuration, once
\* scan_image is over, a stored status SUCCESS or FAILED means that
\* _send_scan_notifications was invoked for the record (scan_image reached its
\* return), also when the record was forced to FAILED by the except clause,
\* and a stored status ERROR or TIMEOUT means that no message was sent.
C12_NotifiesOnSuccessAndFailed ==
  \A c \in Calls :
    (pc[c] \in {"returned", "raised"} /\ OwnedWithActiveChannel(c)) =>
      LET status == store_scans[scan_record[c].id].scan_status IN
      /\ status \in {"SUCCESS", "FAILED"} => pc[c] = "returned"
      /\ status \in {"ERROR", "TIMEOUT"} => MessagesOf(scan_record[c].id) = {}

\* C13: while _send_scan_notifications runs, whatever fails in it, the stored
\* scan records and findings and the call's record stay as committed, nothing
\* is raised and scan_image goes on to return the record.
C13_DispatchFailureContained ==
  [][\A c \in Calls :
       pc[c] = "notify" =>
         /\ pc'[c] \in {"notify", "returned"}
         /\ raised'[c] = None
         /\ scan_record'[c] = scan_record[c]
         /\ store_scans' = store_scans
         /\ store_vulns' = store_vulns]_vars
\* scan_image has returned a SUCCESS record with findings although the only
\* channel of the group could not be served.
C13_Witness ==
  \E c \in Calls :
    /\ pc[c] = "returned"
    /\ OwnedWithActiveChannel(c)
    /\ \E cfg \in configs : is_served(cfg) /\ cfg.group_id = group_id[c][1]
    /\ raised[c] = None
    /\ store_scans[scan_record[c].id].scan_status = "SUCCESS"
    /\ store_scans[scan_record[c].id].total_vulnerabilities > 0
    /\ \A m \in MessagesOf(scan_record[c].id) : ~m.delivered

\* The channels configured for dispatch: active Slack and email rows.
ConfiguredChannels == {cfg \in configs : is_served(cfg)}
EntriesFor(entries, cfg) ==
  Cardinality({i \in 1..Len(entries) : entries[i].config_name = cfg})

\* C14: every dispatch call of the manager returns, without throwing, a
\* report grouped by channel kind that holds exactly one outcome entry per
\* configured channel.
C14_OneOutcomePerChannel ==
  dispatch # None =>
    /\ ~dispatch[1].thrown
    /\ dispatch[1].returned # None
    /\ \A cfg \in ConfiguredChannels :
         EntriesFor(IF cfg.type = "email" THEN dispatch[1].returned[1].email
                    ELSE dispatch[1].returned[1].slack, cfg) = 1

\* C15: a vulnerability alert reaches a channel only for a scan whose
\* total_vulnerabilities is > 0; a completion notice carries the text of the
\* scan's status, SUCCESS and FAILED differing, whatever the count.
C15_AlertOnlyWithFindings ==
  \A m \in sent :
    /\ (m.kind = "alert" /\ m.delivered) => m.total_vulnerabilities > 0
    /\ (m.kind = "completion" /\ m.scan_status = "SUCCESS") =>
         m.text = "Scan completed successfully"
    /\ (m.kind = "completion" /\ m.scan_status = "FAILED") =>
         m.text = "Scan failed"

\* C16: a message for a scan goes only to a channel built from a
\* configuration that is active and belongs to the scan's owning group.
C16_OnlyActiveConfigsOfOwningGroup ==
  \A m \in sent :
    (m.scan_id # 0 /\ m.delivered) =>
      /\ m.config # None
      /\ m.config[1] \in configs
      /\ m.config[1].is_active
      /\ m.config[1].group_id = dispatch_scan.group_id


\* ------------------------------------------------------------------- C17
ChartArrays == {"labels", "critical", "high", "medium", "low"}

\* C17: a call of get_chart_data(group, days) with days >= 1 never fails and
\* returns labels, critical, high, medium and low arrays of length days each,
\* whatever scans are stored (none in the range, or on some days only).
C17_ChartArraysOfLengthDays ==
  (report # None /\ report[1].call = "ScanMapper.get_chart_data") =>
    /\ report[1].raised = None
    /\ report[1].result # None
    /\ \A k \in ChartArrays : Len(report[1].result[1][k]) = report[1].days

\* ------------------------------------------------------------------- C18
\* The scans of a group created at or after now - days.
ScansInWindow(group, days) ==
  {s \in ScanRows : s.group_id = group /\ now - s.created_at <= days * TicksPerDay}

\* C18: get_scan_statistics(group, days) reports, over the scans of the group
\* created at or after now - days: their number, the number with status
\* SUCCESS, the number with status FAILED, the rate successful / total (as a
\* percentage; 0 when there is no scan) and the sum of each severity counter.
C18_StatisticsOverGroupWindow ==
  (report # None /\ report[1].call = "ScanMapper.get_scan_statistics") =>
    LET stats == report[1].result[1]
        scans == ScansInWindow(report[1].group[1], report[1].days)
        successful == {s \in scans : s.scan_status = "SUCCESS"}
        failed == {s \in scans : s.scan_status = "FAILED"}
    IN /\ stats.total_scans = Cardinality(scans)
       /\ stats.successful_scans = Cardinality(successful)
       /\ stats.success_rate.den > 0
       /\ stats.success_rate.num * Cardinality(scans)
            = Cardinality(successful) * 100 * stats.success_rate.den
       /\ scans = {} => stats.success_rate.num = 0
       /\ \A k \in CountFields : stats[k] = SumColumn(scans, k)
       /\ "failed_scans" \in DOMAIN stats
       /\ stats.failed_scans = Cardinality(failed)


\* ------------------------------------------------------------------- C19
\* The request of call c names an image or a tag the precondition rejects.
InvalidRequest(c) ==
  \/ ~validate_image_name(scan_record[c].image_name)
  \/ ~validate_image_tag(scan_record[c].image_tag)

\* C19: a scan request whose image name or tag is invalid has no side effect
\* on the store: at no point of the call has its record been inserted into
\* the scans table (the record never receives a primary key).
C19_InvalidRequestLeavesNoRecord ==
  \A c \in Calls :
    (InFlight(c) /\ InvalidRequest(c)) =>
      /\ scan_record[c].id = 0
      /\ \A i \in DOMAIN store_scans :
           validate_image_name(store_scans[i].image_name)
           /\ validate_image_tag(store_scans[i].image_tag)


\* ------------------------------------------------------------------- C20
\* C20: a backend's scan_image that was called with a valid image name and
\* tag never raises, and what it returns is a ScanResult whose status is one
\* of SUCCESS, FAILED, ERROR and TIMEOUT and whose recorded duration is >= 0,
\* whatever came of the subprocess or of the request. (The clock is not set
\* back while the call runs.)
C20_BackendReturnsResultWithDuration ==
  (/\ backend_call # None
   /\ validate_image_name(backend_call[1].image_name)
   /\ validate_image_tag(backend_call[1].image_tag)) =>
    /\ backend_call[1].pc # "raised"
    /\ backend_call[1].raised = None
    /\ backend_call[1].pc = "returned" =>
         /\ backend_call[1].result # None
         /\ backend_call[1].result[1].scan_status \in TerminalStatuses
         /\ backend_call[1].result[1].scan_duration_seconds >= 0

\* A trivy call for a valid image has returned ERROR (missing binary, OS error
\* or malformed output) after time has passed.
C20_Witness ==
  /\ backend_call # None
  /\ backend_call[1].scanner = "trivy"
  /\ validate_image_name(backend_call[1].image_name)
  /\ validate_image_tag(backend_call[1].image_tag)
  /\ backend_call[1].pc = "returned"
  /\ backend_call[1].result[1].scan_status = "ERROR"
  /\ backend_call[1].result[1].scan_duration_seconds > 0


\* ------------------------------------------------------------------- C21
\* The probe outcomes in which a backend's version is obtained.
VersionObtained == {"exit0", "status200"}

\* C21: is_available of a backend never raises and returns a boolean for
\* every way the probe can end; get_scanner_version never raises and returns
\* "unknown" whenever the version is not obtained.
C21_ProbesNeverRaise ==
  probe # None =>
    /\ probe[1].raised = None
    /\ probe[1].result # None
    /\ probe[1].method = "is_available" => probe[1].result[1] \in BOOLEAN
    /\ (probe[1].method = "get_scanner_version"
        /\ probe[1].outcome \notin VersionObtained) =>
         probe[1].result[1] = "unknown"


\* ------------------------------------------------------------------- C22
\* The CVE ids of the curated finding set of each recognised keyword, and
\* those of the generic set.
CuratedCves(keyword) ==
  CASE keyword = "nginx" -> {"CVE-2021-23017", "CVE-2020-12400"}
    [] keyword = "ubuntu" -> {"CVE-2021-4034", "CVE-2021-44228"}
    [] keyword = "node" -> {"CVE-2021-22918", "CVE-2021-22940"}
GenericCves == {"CVE-2021-12345", "CVE-2021-67890"}
ClairKeywords == {"nginx", "ubuntu", "node"}
FindingCves(findings) == {v.cve_id : v \in DOMAIN findings}

\* C22: a result of the Clair backend that holds (fabricated) findings has
\* status SUCCESS and a "note" in its metadata, and its findings are decided
\* by the image name alone: the curated set of a keyword the name contains,
\* or the generic set of two findings for a name without a keyword.
C22_FabricatedFindingsFlaggedAndByName ==
  (/\ backend_call # None
   /\ backend_call[1].scanner = "clair"
   /\ backend_call[1].pc = "returned"
   /\ backend_call[1].result[1].vulnerabilities # EmptyBag) =>
    LET result == backend_call[1].result[1]
        name == Lower(backend_call[1].image_name)
        found == {k \in ClairKeywords : Contains(name, k)}
    IN /\ result.scan_status = "SUCCESS"
       /\ "note" \in result.metadata
       /\ IF found = {}
          THEN /\ FindingCves(result.vulnerabilities) = GenericCves
               /\ BagCardinality(result.vulnerabilities) = 2
          ELSE /\ \E k \in found :
                    FindingCves(result.vulnerabilities) = CuratedCves(k)
               /\ (Cardinality(found) = 1 \/ "nginx" \in found) =>
                    FindingCves(result.vulnerabilities)
                      = CuratedCves(IF "nginx" \in found THEN "nginx"
                                    ELSE CHOOSE k \in found : TRUE)

\* Clair has returned findings for a name that holds two keywords.
C22_Witness ==
  /\ backend_call # None
  /\ backend_call[1].scanner = "clair"
  /\ backend_call[1].pc = "returned"
  /\ backend_call[1].image_name = "Nginx-Node"
  /\ backend_call[1].result[1].scan_status = "SUCCESS"
  /\ backend_call[1].result[1].vulnerabilities # EmptyBag


\* ------------------------------------------------------------------- C23
\* C23: what a reader of the store sees of a scan is a single unit: the
\* committed record of every scan carries the per-severity numbers (and the
\* total) of the committed findings of its id, so that committed findings
\* never appear beside counts that do not match them.
C23_FindingsAndCountsOneUnit ==
  \A i \in DOMAIN store_scans : CountersAre(store_scans[i], store_vulns)

\* ------------------------------------------------------------------- C24
\* The committed findings of one scan.
FindingsOfScan(rows, id) == SelectBag(rows, LAMBDA r : r.scan_id = id)
\* C24: a call of scan_image that inserts its record appends a new row to the
\* scans table under an id no other call holds, also when the other call
\* scanned the same image and tag; and whatever step a call takes, while the
\* other call is running or after it ended, the committed records and the
\* committed findings of every other id stay as they were.
C24_NewRecordOthersUntouched ==
  [][\A c \in Calls :
       pc'[c] # pc[c] =>
         /\ scan_record[c].id = 0 /\ scan_record'[c].id # 0 =>
              /\ Len(store_scans') = Len(store_scans) + 1
              /\ scan_record'[c].id = Len(store_scans')
              /\ store_scans'[scan_record'[c].id].id = scan_record'[c].id
              /\ \A d \in Calls \ {c} : scan_record'[d].id # scan_record'[c].id
         /\ pc'[c] \in {"backend", "returned"} => scan_record'[c].id # 0
         /\ Len(store_scans') >= Len(store_scans)
         /\ \A i \in DOMAIN store_scans :
              i # scan_record[c].id =>
                /\ store_scans'[i] = store_scans[i]
                /\ FindingsOfScan(store_vulns', i) = FindingsOfScan(store_vulns, i)
    ]_vars
\* The call that created its record first is about to commit its findings
\* while the call that created its record second, for the same image and tag,
\* has returned with committed findings.
C24_Witness ==
  /\ pc["c1"] = "commit" /\ pc["c2"] = "returned"
  /\ scan_record["c1"].id # 0
  /\ scan_record["c1"].id < scan_record["c2"].id
  /\ scan_record["c1"].image_name = scan_record["c2"].image_name
  /\ scan_record["c1"].image_tag = scan_record["c2"].image_tag
  /\ tx_vulns["c1"] # EmptyBag
  /\ RowsOfScan(store_vulns, scan_record["c2"].id) > 0
  /\ store_scans[scan_record["c2"].id].total_vulnerabilities > 0

\* ------------------------------------------------------------------- C25
\* The severity a finding is to carry: that of a recognised value whatever
\* its case, LOW for any other value and for a missing one.
NormalisedSeverity(entry) ==
  LET severity == dict_get(entry, "Severity", JsonNull) IN
  IF severity.type = "str" /\ Upper(severity.value) \in VULNERABILITY_SEVERITIES
  THEN Upper(severity.value)
  ELSE "LOW"
\* The entries of the output that are findings (dicts), in a result that is
\* one dict with a list of entries.
FindingEntries(stdout) ==
  SelectSeq(stdout.value.Vulnerabilities.value, LAMBDA e : e.type = "dict")
OneResultWithList(stdout) ==
  /\ stdout.type = "dict"
  /\ "Vulnerabilities" \in DOMAIN stdout.value
  /\ stdout.value.Vulnerabilities.type = "list"
ExpectedFindings(stdout) ==
  LET entries == FindingEntries(stdout) IN
  SeqToBag([i \in 1..Len(entries) |->
              [cve_id |-> entries[i].value.VulnerabilityID.value,
               severity |-> NormalisedSeverity(entries[i])]])
\* C25: when trivy exits with 0 and writes a result with a list of entries,
\* every entry that is a finding is returned, with its severity normalised to
\* one of CRITICAL, HIGH, MEDIUM, LOW: a recognised value maps to itself
\* whatever its case, any other value and a missing one map to LOW; no
\* finding is dropped for its severity value.
C25_SeverityNormalisedNeverDropped ==
  (/\ backend_call # None
   /\ backend_call[1].pc = "returned"
   /\ backend_call[1].outcome = "exit0"
   /\ OneResultWithList(backend_call[1].stdout)) =>
    backend_call[1].result[1].vulnerabilities =
      ExpectedFindings(backend_call[1].stdout)

\* ------------------------------------------------------------------- C26
\* A call of the trivy backend for a valid image has returned.
TrivyReturned ==
  /\ backend_call # None
  /\ backend_call[1].scanner = "trivy"
  /\ backend_call[1].pc = "returned"
\* C26: the trivy backend maps what came of the subprocess to the status:
\* exit code 0 gives SUCCESS with scan_output from the process; another exit
\* code gives FAILED with no findings and stderr in scan_output; the timeout
\* gives TIMEOUT with no findings; a missing binary or an OS error gives ERROR
\* with no findings, a scan_output that is not empty and a duration >= 0.
C26_OutcomeToStatus ==
  TrivyReturned =>
    LET outcome == backend_call[1].outcome
        result == backend_call[1].result[1]
    IN CASE outcome = "exit0" -> result.scan_status = "SUCCESS"
         [] outcome = "nonzero" ->
              /\ result.scan_status = "FAILED"
              /\ result.vulnerabilities = EmptyBag
              /\ \E i \in DOMAIN result.scan_output :
                   result.scan_output[i] = "stderr"
         [] outcome = "timeout" ->
              /\ result.scan_status = "TIMEOUT"
              /\ result.vulnerabilities = EmptyBag
         [] OTHER ->
              /\ result.scan_status = "ERROR"
              /\ result.vulnerabilities = EmptyBag
              /\ result.scan_output # <<>>
              /\ \A i \in DOMAIN result.scan_output : result.scan_output[i] # ""
              /\ result.scan_duration_seconds >= 0

\* ------------------------------------------------------------------- C27
\* The entries of one result of the output.
ResultEntries(result) ==
  IF /\ result.type = "dict"
     /\ "Vulnerabilities" \in DOMAIN result.value
     /\ result.value.Vulnerabilities.type = "list"
  THEN result.value.Vulnerabilities.value
  ELSE <<>>
RECURSIVE EntriesOf(_)
EntriesOf(results) ==
  IF results = <<>> THEN <<>>
  ELSE ResultEntries(Head(results)) \o EntriesOf(Tail(results))
\* Every entry of the output, wherever it stands.
OutputEntries(stdout) ==
  CASE stdout.type = "list" -> EntriesOf(stdout.value)
    [] stdout.type = "dict" ->
         ResultEntries(stdout)
           \o (IF "Results" \in DOMAIN stdout.value
               THEN EntriesOf(stdout.value.Results.value) ELSE <<>>)
    [] OTHER -> <<>>
\* An entry that can be parsed: a dict whose severity, if it has one, is a
\* string.
WellFormed(entry) ==
  /\ entry.type = "dict"
  /\ "Severity" \in DOMAIN entry.value => entry.value.Severity.type = "str"
WellFormedFindings(stdout) ==
  LET entries == SelectSeq(OutputEntries(stdout), WellFormed) IN
  SeqToBag([i \in 1..Len(entries) |->
              [cve_id |-> entries[i].value.VulnerabilityID.value,
               severity |-> NormalisedSeverity(entries[i])]])
\* C27: when trivy exits with 0 the scan is SUCCESS whatever the output holds,
\* and the findings returned are the well-formed entries of the output: an
\* entry, a result or a list that cannot be parsed is skipped alone.
C27_DegradesFindingByFinding ==
  (TrivyReturned /\ backend_call[1].outcome = "exit0") =>
    /\ backend_call[1].result[1].scan_status = "SUCCESS"
    /\ backend_call[1].result[1].vulnerabilities =
         WellFormedFindings(backend_call[1].stdout)

\* ------------------------------------------------------------------- C28
\* The chart array of each severity counter.
ChartColumns ==
  [critical |-> "critical_count", high |-> "high_count",
   medium |-> "medium_count", low |-> "low_count"]
RECURSIVE SumSeq(_)
SumSeq(s) == IF s = <<>> THEN 0 ELSE Head(s) + SumSeq(Tail(s))
\* C28: a chart returned for a group and a number of days holds in bucket i,
\* per severity, the sum of that counter over the scans of the group in
\* [now - days, now] whose scan_timestamp falls on the day of the bucket (0
\* for a day without scans), and the buckets together hold every scan of the
\* range: the sum over the buckets is the sum over the scans of the range.
C28_BucketsSumScansOfRange ==
  (/\ report # None
   /\ report[1].call \in {"ScanMapper.get_chart_data", "chart_data"}
   /\ report[1].group # None) =>
    LET days == report[1].days
        start_date == now - timedelta(days)
        scans == ChartScans(report[1].group[1], start_date, now)
    IN /\ report[1].result # None
       /\ \A k \in DOMAIN ChartColumns :
            LET array == report[1].result[1][k] IN
            /\ \A b \in 1..days :
                 b \in DOMAIN array =>
                   array[b] = SumColumn(DayScans(scans, start_date + timedelta(b - 1)),
                                        ChartColumns[k])
            /\ SumSeq(array) = SumColumn(scans, ChartColumns[k])

\* ------------------------------------------------------------------- C29
\* C29: once a call of scan_image that has created a record has returned or
\* raised, the record it created holds one of the statuses SUCCESS, FAILED,
\* ERROR and TIMEOUT in the store; no record of an ended call stays
\* IN_PROGRESS, whichever commit failed on the way.
C29_EndedCallLeavesTerminalStatus ==
  \A c \in Calls :
    (pc[c] \in {"returned", "raised"} /\ scan_record[c].id # 0) =>
      /\ scan_record[c].id \in DOMAIN store_scans
      /\ store_scans[scan_record[c].id].scan_status \in TerminalStatuses

\* ------------------------------------------------------------------- C30
\* C30: for every count vector and every threshold string, recognised or not,
\* VulnerabilityScanner.should_fail_build, ScannerService.should_fail_build,
\* SeverityUtils.should_fail_build and ScanService.should_fail_build (which
\* calls the latter) take the same decision.
C30_GateImplementationsAgree ==
  gate_result # None =>
    /\ gate_result[1].engine = gate_result[1].service
    /\ gate_result[1].service = gate_result[1].utils
    /\ gate_result[1].utils = gate_result[1].scan_service

====
